---- MODULE Spec2Model ----
(***************************************************************************)
(* A model of the BUFR query engine: QueryRunner (target resolution and    *)
(* data collection) writing DataFrames into a ResultSet.                    *)
(*                                                                         *)
(* Strings that the code slices or joins (tags, dim paths) are sequences   *)
(* of tokens: a framing character is one token, a mnemonic is one token,   *)
(* so substr(1, size - 2) on a framed tag is SubSeq(tag, 2, Len(tag) - 1). *)
(* A null BufrNode pointer is node index 0.                                *)
(***************************************************************************)
EXTENDS Integers, Sequences, FiniteSets, TLC

\* ------------------------------------------------------------------ bounds

\* The largest replication count a delayed replication node takes.
MaxRep == 2

\* The number of subsets the caller runs accumulate() on.
MaxFrames == 2

\* The largest index a query component carries in the findTarget inputs.
MaxIndex == 3

\* ------------------------------------------------------- the DataProvider

RepTyps == {"DelayedRep", "FixedRep", "DelayedRepStacked", "DelayedBinary"}

SeqTyps == {"Sequence", "Repeat", "StackedRepeat"}

LeafTyps == {"Number", "Character"}

\* TypeInfo() as default-constructed.
DefaultTypeInfo == [scale |-> 0, reference |-> 0, bits |-> 0, unit |-> ""]

\* Table shape 1: one delayed replication {OBS} of TEMP, then PRES, the
\* subset's last node.
Shape1 ==
  [inode |-> 1, isc |-> 5, irf |-> <<0, 0, 0, 0, 0>>,
   typ  |-> <<"Subset", "DelayedRep", "Repeat", "Number", "Number">>,
   tag  |-> << <<"NC">>, <<"{", "OBS", "}">>, <<"OBS">>, <<"TEMP">>, <<"PRES">> >>,
   jmpb |-> <<0, 1, 2, 3, 1>>,
   link |-> <<0, 5, 0, 0, 0>>,
   info |-> <<DefaultTypeInfo, [scale |-> 0, reference |-> 0, bits |-> 8, unit |-> "NUMERIC"],
              DefaultTypeInfo,
              [scale |-> 1, reference |-> 0, bits |-> 12, unit |-> "K"],
              [scale |-> -1, reference |-> 0, bits |-> 14, unit |-> "PA"]>>]

\* Table shape 2: PRES, a pure sequence LOC of two TEMP, a fixed replication
\* "OBS" (MaxRep times) of TEMP, and a delayed binary <FLG> gating TEMP, the
\* subset's last node.
Shape2 ==
  [inode |-> 1, isc |-> 11, irf |-> <<0, 0, 0, 0, 0, MaxRep, 0, 0, 0, 0, 0>>,
   typ  |-> <<"Subset", "Number", "Sequence", "Number", "Number", "FixedRep",
              "Sequence", "Number", "DelayedBinary", "Sequence", "Number">>,
   tag  |-> << <<"NC">>, <<"PRES">>, <<"LOC">>, <<"TEMP">>, <<"TEMP">>,
               <<"\"", "OBS", "\"">>, <<"OBS">>, <<"TEMP">>,
               <<"<", "FLG", ">">>, <<"FLG">>, <<"TEMP">> >>,
   jmpb |-> <<0, 1, 1, 3, 3, 1, 6, 7, 1, 9, 10>>,
   link |-> <<0, 3, 6, 5, 0, 9, 0, 0, 0, 0, 0>>,
   info |-> <<DefaultTypeInfo, [scale |-> -1, reference |-> 0, bits |-> 14, unit |-> "PA"],
              DefaultTypeInfo,
              [scale |-> 2, reference |-> -100, bits |-> 16, unit |-> "K"],
              [scale |-> 2, reference |-> -100, bits |-> 16, unit |-> "K"],
              DefaultTypeInfo, DefaultTypeInfo,
              [scale |-> 2, reference |-> 0, bits |-> 16, unit |-> "K"],
              [scale |-> 0, reference |-> 0, bits |-> 1, unit |-> "NUMERIC"],
              DefaultTypeInfo,
              [scale |-> 0, reference |-> 0, bits |-> 24, unit |-> "CCITT IA5"]>>]

\* Table shape 3: a delayed replication {LEV} of HGT and a nested stacked
\* delayed replication [WND] of SPD (last in LEV), then PRES.
Shape3 ==
  [inode |-> 1, isc |-> 8, irf |-> <<0, 0, 0, 0, 0, 0, 0, 0>>,
   typ  |-> <<"Subset", "DelayedRep", "Repeat", "Number", "DelayedRepStacked",
              "StackedRepeat", "Number", "Number">>,
   tag  |-> << <<"NC">>, <<"{", "LEV", "}">>, <<"LEV">>, <<"HGT">>,
               <<"[", "WND", "]">>, <<"WND">>, <<"SPD">>, <<"PRES">> >>,
   jmpb |-> <<0, 1, 2, 3, 3, 5, 6, 1>>,
   link |-> <<0, 8, 0, 5, 0, 0, 0, 0>>,
   info |-> <<DefaultTypeInfo, [scale |-> 0, reference |-> 0, bits |-> 8, unit |-> "NUMERIC"],
              DefaultTypeInfo,
              [scale |-> -1, reference |-> -40, bits |-> 16, unit |-> "M"],
              [scale |-> 0, reference |-> 0, bits |-> 16, unit |-> "NUMERIC"],
              DefaultTypeInfo,
              [scale |-> 1, reference |-> 0, bits |-> 12, unit |-> "M S-1"],
              [scale |-> -1, reference |-> 0, bits |-> 14, unit |-> "PA"]>>]

\* Table shape 4: two delayed replications side by side, {OBS} of TEMP and
\* {LEV} of HGT, then PRES.
Shape4 ==
  [inode |-> 1, isc |-> 8, irf |-> <<0, 0, 0, 0, 0, 0, 0, 0>>,
   typ  |-> <<"Subset", "DelayedRep", "Repeat", "Number", "DelayedRep",
              "Repeat", "Number", "Number">>,
   tag  |-> << <<"NC">>, <<"{", "OBS", "}">>, <<"OBS">>, <<"TEMP">>,
               <<"{", "LEV", "}">>, <<"LEV">>, <<"HGT">>, <<"PRES">> >>,
   jmpb |-> <<0, 1, 2, 3, 1, 5, 6, 1>>,
   link |-> <<0, 5, 0, 0, 8, 0, 0, 0>>,
   info |-> <<DefaultTypeInfo, [scale |-> 0, reference |-> 0, bits |-> 8, unit |-> "NUMERIC"],
              DefaultTypeInfo,
              [scale |-> 1, reference |-> 0, bits |-> 12, unit |-> "K"],
              [scale |-> 0, reference |-> 0, bits |-> 8, unit |-> "NUMERIC"],
              DefaultTypeInfo,
              [scale |-> -2, reference |-> -400, bits |-> 17, unit |-> "M"],
              [scale |-> -1, reference |-> 0, bits |-> 14, unit |-> "PA"]>>]

Shapes == <<Shape1, Shape2, Shape3, Shape4>>

SubsetNames == {"A", "B", "C", "D"}

\* The table shape a subset name normally comes with.
HomeShape(name) ==
  CASE name = "A" -> 1 [] name = "C" -> 2 [] name = "D" -> 4 [] OTHER -> 3

getInode(p) == p.inode

getIsc(p, n) == p.isc

getTyp(p, n) == p.typ[n]

getTag(p, n) == p.tag[n]

getJmpb(p, n) == p.jmpb[n]

getLink(p, n) == p.link[n]

getTypeInfo(p, n) == p.info[n]

\* The jump-table children of node n, in table order.
KidsOf(p, n) == {m \in (p.inode + 1)..p.isc : p.jmpb[m] = n}

RECURSIVE SetToSortedSeq(_)
SetToSortedSeq(S) ==
  IF S = {} THEN <<>>
  ELSE LET m == CHOOSE x \in S : \A y \in S : x <= y
       IN  <<m>> \o SetToSortedSeq(S \ {m})

RECURSIVE Flatten(_)
Flatten(ss) == IF ss = <<>> THEN <<>> ELSE Head(ss) \o Flatten(Tail(ss))

\* The ways the count of an inner replication goes over the occurrences of
\* the enclosing one.
InnerPatterns == 0..(MaxRep + 1)

\* The count of the inner replication in occurrence occ of the enclosing one,
\* for an outer count c, under pattern d: varying with the occurrence, zero
\* included (d = 0), the same count d in every occurrence (1..MaxRep), or
\* growing with the occurrence.
InnerCount(c, occ, d) ==
  IF d = 0 THEN (occ + c) % 3 ELSE IF d <= MaxRep THEN d ELSE occ

\* The nodes a decoded subset streams for the sub-tree of node n: a delayed
\* replication node carries its count and is followed by one copy of its child
\* sequence per occurrence and by the closing bracket, a bare child sequence
\* node; a fixed replication is followed by irf copies; a delayed binary by
\* zero or one copy. c is the count of the top-level replication, occ the
\* occurrence of the enclosing replication (0 at top level).
RECURSIVE Expand(_, _, _, _, _)
Expand(p, n, c, d, occ) ==
  LET t == p.typ[n]
      kids == SetToSortedSeq(KidsOf(p, n))
      body(o) == Flatten([i \in 1..Len(kids) |-> Expand(p, kids[i], c, d, o)])
      cnt == IF t = "FixedRep" THEN p.irf[n]
             ELSE IF t = "DelayedBinary" THEN (IF c > 0 THEN 1 ELSE 0)
             ELSE IF occ = 0 THEN c ELSE InnerCount(c, occ, d)
  IN  IF t \in LeafTyps THEN << [node |-> n, cnt |-> -1] >>
      ELSE IF t \in {"Subset"} \cup SeqTyps
        THEN << [node |-> n, cnt |-> -1] >> \o body(occ)
      ELSE << [node |-> n, cnt |-> IF t = "FixedRep" THEN 0 ELSE cnt] >>
           \o Flatten([i \in 1..cnt |-> Expand(p, n + 1, c, d, i)])
           \o (IF t \in {"DelayedRep", "DelayedRepStacked"}
               THEN << [node |-> n + 1, cnt |-> -1] >> ELSE <<>>)

\* The value stream of a subset: inv(cursor) and val(cursor). A delayed
\* replication node's value is its count (a fixed replication stores none);
\* any other node's value is base + cursor, so every collected value tells
\* where it came from.
Stream(p, c, d, base) ==
  LET e == Expand(p, p.inode, c, d, 0)
  IN  [inv |-> [i \in 1..Len(e) |-> e[i].node],
       val |-> [i \in 1..Len(e) |->
                  IF e[i].cnt >= 0 THEN e[i].cnt ELSE base + i]]

\* ------------------------------------------------------------ SubsetTable

isQueryNode(p, nodeIdx) ==
  getTyp(p, nodeIdx) \in {"DelayedRep", "FixedRep", "DelayedRepStacked", "DelayedBinary"}

\* The nearest node at or above m that the table keeps as a tree node: a
\* replication node or the subset; pure sequences are transparent.
RECURSIVE EnclosingNode(_, _)
EnclosingNode(p, m) ==
  IF m = p.inode \/ isQueryNode(p, m) THEN m ELSE EnclosingNode(p, p.jmpb[m])

TableParent(p, n) == EnclosingNode(p, p.jmpb[n])

\* The BufrNodes below the root: replications (named by the mnemonic of their
\* child sequence) and leaves.
TableNodes(p) ==
  {n \in (p.inode + 1)..p.isc : p.typ[n] \in RepTyps \cup LeafTyps}

TableName(p, n) == IF isQueryNode(p, n) THEN p.tag[n + 1] ELSE p.tag[n]

TableChildren(p, k, name) ==
  {n \in TableNodes(p) : TableParent(p, n) = k /\ TableName(p, n) = name}

NthOf(S, i) == CHOOSE n \in S : Cardinality({m \in S : m <= n}) = i

\* getNodeForPath: match each component's name among the children of the
\* current node; index > 0 picks that occurrence, 0 the first; 0 is nullptr.
RECURSIVE WalkPath(_, _, _, _)
WalkPath(p, cur, path, i) ==
  IF i > Len(path) THEN cur
  ELSE LET c == TableChildren(p, cur, path[i].name)
           k == IF path[i].index > 0 THEN path[i].index ELSE 1
       IN  IF Cardinality(c) < k THEN 0
           ELSE WalkPath(p, NthOf(c, k), path, i + 1)

getNodeForPath(p, path) == WalkPath(p, p.inode, path, 1)

\* getPathNodes: the root-to-node path of a table node.
RECURSIVE getPathNodes(_, _)
getPathNodes(p, n) ==
  IF n = p.inode THEN <<n>> ELSE getPathNodes(p, TableParent(p, n)) \o <<n>>

\* getDimInfo: walk the branches (replication nodes) of a path; every branch
\* extends the current dim path by "/" and its tag stripped of the framing
\* characters, and every branch but a delayed binary adds a dimension.
RECURSIVE DimWalk(_, _, _, _, _)
DimWalk(p, branches, branchIdx, currentDimPath, acc) ==
  IF branchIdx >= Len(branches) THEN acc
  ELSE LET nodeIdx == branches[branchIdx + 1]
           mnemonicStr == getTag(p, nodeIdx)
           path == currentDimPath \o <<"/">>
                     \o SubSeq(mnemonicStr, 2, Len(mnemonicStr) - 1)
           isDim == getTyp(p, nodeIdx) \in
                      {"DelayedRep", "FixedRep", "DelayedRepStacked"}
       IN  DimWalk(p, branches, branchIdx + 1, path,
                   IF isDim
                   THEN [dimPaths |-> Append(acc.dimPaths, path),
                         dimIdxs  |-> Append(acc.dimIdxs, branchIdx + 1)]
                   ELSE acc)

getDimInfo(p, branches) ==
  DimWalk(p, branches, 0, <<"*">>, [dimPaths |-> << <<"*">> >>, dimIdxs |-> <<0>>])

\* The replication nodes on the way to table node n.
RepBranches(p, n) ==
  LET nodes == getPathNodes(p, n)
  IN  SelectSeq(SubSeq(nodes, 2, Len(nodes)), LAMBDA m : isQueryNode(p, m))

getDimPaths(p, n) == getDimInfo(p, RepBranches(p, n)).dimPaths

getDimIdxs(p, n) == getDimInfo(p, RepBranches(p, n)).dimIdxs

\* ----------------------------------------------------------------- Target

\* TargetComponent::setType: the component type of a node type.
ComponentType(typ) ==
  IF typ = "Subset" THEN "Subset"
  ELSE IF typ \in RepTyps THEN "Repeat" ELSE "Value"

\* Target::setPath: seqPath is the branch of every Repeat component.
SeqPathOf(path) ==
  LET reps == SelectSeq(path, LAMBDA c : c.type = "Repeat")
  IN  [i \in 1..Len(reps) |-> reps[i].branch]

\* Lines 84-99 with lines 93-95 left out: the empty target gets no dimension
\* path and no export dimension index.
EmptyTargetNoDims(name, queryStr) ==
  [name |-> name, queryStr |-> queryStr, nodeIdx |-> 0, path |-> <<>>,
   seqPath |-> <<>>, typeInfo |-> DefaultTypeInfo,
   dimPaths |-> <<>>, exportDimIdxs |-> <<>>]

\* Lines 84-99: the target of a name none of whose sub-queries resolves.
EmptyTarget(name, queryStr) ==
  [name |-> name, queryStr |-> queryStr, nodeIdx |-> 0, path |-> <<>>,
   seqPath |-> <<>>, typeInfo |-> DefaultTypeInfo,
   dimPaths |-> << <<"*">> >>, exportDimIdxs |-> <<0>>]

\* ------------------------------------------------- QueryRunner::findTargets

\* The masks are vectors of numNodes = isc(inode) flags, indexed from 0:
\* flag n is element n + 1 of the sequence. A write at an index >= numNodes
\* lands beyond the vector's end and leaves the vector itself unchanged.
NewMask(numNodes) == [i \in 1..numNodes |-> FALSE]

MaskInRange(mask, n) == n >= 0 /\ n < Len(mask)

SetMask(mask, n) ==
  IF MaskInRange(mask, n) THEN [mask EXCEPT ![n + 1] = TRUE] ELSE mask

\* Lines 75-82 with the break left out: every sub-query is tried and the last
\* one decides.
RECURSIVE SubQueryLoopNoBreak(_, _, _, _)
SubQueryLoopNoBreak(p, queries, j, found) ==
  IF j > Len(queries) THEN found
  ELSE SubQueryLoopNoBreak(p, queries, j + 1,
         [tableNode |-> getNodeForPath(p, queries[j].path), foundQuery |-> queries[j]])

FindTableNodeNoBreak(p, queries) ==
  SubQueryLoopNoBreak(p, queries, 1, [tableNode |-> 0, foundQuery |-> queries[1]])

\* Lines 75-82: loop through the sub-queries until one has a table node.
RECURSIVE SubQueryLoop(_, _, _, _)
SubQueryLoop(p, queries, j, found) ==
  IF j > Len(queries) THEN found
  ELSE LET tableNode == getNodeForPath(p, queries[j].path)
           now == [tableNode |-> tableNode, foundQuery |-> queries[j]]
       IN  IF tableNode # 0 THEN now ELSE SubQueryLoop(p, queries, j + 1, now)

FindTableNode(p, queries) ==
  SubQueryLoop(p, queries, 1, [tableNode |-> 0, foundQuery |-> queries[1]])

\* Lines 84-129: the target of one query name.
MakeTarget(p, name, queries) ==
  LET found == FindTableNode(p, queries)
      tableNode == found.tableNode
      foundQuery == found.foundQuery
      nodes == getPathNodes(p, tableNode)
      path == [k \in 1..(Len(foundQuery.path) + 1) |->
                 IF k = 1
                 THEN [queryComponent |-> foundQuery.subset, branch |-> 0,
                       type |-> "Subset"]
                 ELSE [queryComponent |-> foundQuery.path[k - 1],
                       branch |-> nodes[k],
                       type |-> ComponentType(getTyp(p, nodes[k]))]]
  IN  IF tableNode = 0
      THEN EmptyTarget(name, queries[1].queryStr)
      ELSE [name |-> name, queryStr |-> foundQuery.queryStr,
            nodeIdx |-> tableNode, path |-> path, seqPath |-> SeqPathOf(path),
            typeInfo |-> getTypeInfo(p, tableNode),
            dimPaths |-> getDimPaths(p, tableNode),
            exportDimIdxs |-> getDimIdxs(p, tableNode)]

RECURSIVE SetMasks(_, _, _)
SetMasks(mask, idxs, i) ==
  IF i > Len(idxs) THEN mask ELSE SetMasks(SetMask(mask, idxs[i]), idxs, i + 1)

\* Lines 63-137: the targets and masks of a subset, one name after the other.
RECURSIVE ResolveLoop(_, _, _, _)
ResolveLoop(p, qs, i, acc) ==
  IF i > Len(qs.names) THEN acc
  ELSE LET name == qs.names[i]
           target == MakeTarget(p, name, qs.queries[name])
       IN  ResolveLoop(p, qs, i + 1,
             IF target.nodeIdx = 0
             THEN [acc EXCEPT !.targets = Append(@, target)]
             ELSE [targets |-> Append(acc.targets, target),
                   valueNodeMask |-> SetMask(acc.valueNodeMask, target.nodeIdx),
                   pathNodeMask |-> SetMasks(acc.pathNodeMask, target.seqPath, 1)])

\* Lines 63-137 without lines 88-99: a name none of whose sub-queries resolves
\* gets no target.
ResolveFoundOnly(p, qs) ==
  LET r == ResolveLoop(p, qs, 1,
             [targets |-> <<>>,
              valueNodeMask |-> NewMask(getIsc(p, getInode(p))),
              pathNodeMask |-> NewMask(getIsc(p, getInode(p)))])
      found(target) == target.nodeIdx # 0
  IN  [r EXCEPT !.targets = SelectSeq(@, found)]

Resolve(p, qs) ==
  ResolveLoop(p, qs, 1,
    [targets |-> <<>>,
     valueNodeMask |-> NewMask(getIsc(p, getInode(p))),
     pathNodeMask |-> NewMask(getIsc(p, getInode(p)))])

\* --------------------------------------------------------------- QuerySet

AnySubset == [isAnySubset |-> TRUE, name |-> "*"]

NamedSubset(name) == [isAnySubset |-> FALSE, name |-> name]

Comp(name, index) == [name |-> <<name>>, index |-> index]

Query(subset, path, queryStr) ==
  [subset |-> subset, path |-> path, queryStr |-> queryStr]

qNope == Query(AnySubset, <<Comp("NOPE", 0)>>, "*/NOPE")

qPres == Query(AnySubset, <<Comp("PRES", 0)>>, "*/PRES")

qObsTemp == Query(AnySubset, <<Comp("OBS", 0), Comp("TEMP", 0)>>, "*/OBS/TEMP")

qFlgTemp == Query(AnySubset, <<Comp("FLG", 0), Comp("TEMP", 0)>>, "*/FLG/TEMP")

qBObsTemp ==
  Query(NamedSubset("B"), <<Comp("OBS", 0), Comp("TEMP", 0)>>, "B/OBS/TEMP")

qLevHgt == Query(AnySubset, <<Comp("LEV", 0), Comp("HGT", 0)>>, "*/LEV/HGT")

qLevWndSpd ==
  Query(AnySubset, <<Comp("LEV", 0), Comp("WND", 0), Comp("SPD", 0)>>,
        "*/LEV/WND/SPD")

qTemp2 == Query(AnySubset, <<Comp("TEMP", 2)>>, "*/TEMP[2]")

\* The query sets a run is given: names() in order and queriesFor(name).
QuerySets ==
  { [names |-> <<"temp", "pres">>,
     queries |-> [n \in {"temp", "pres"} |->
        IF n = "temp" THEN <<qNope, qObsTemp, qFlgTemp>> ELSE <<qPres>>]],
    [names |-> <<"spd", "hgt", "temp">>,
     queries |-> [n \in {"spd", "hgt", "temp"} |->
        IF n = "spd" THEN <<qLevWndSpd>>
        ELSE IF n = "hgt" THEN <<qLevHgt>> ELSE <<qBObsTemp>>]],
    [names |-> <<"flag", "t2">>,
     queries |-> [n \in {"flag", "t2"} |->
        IF n = "flag" THEN <<qFlgTemp>> ELSE <<qTemp2>>]],
    [names |-> <<"temp", "hgt">>,
     queries |-> [n \in {"temp", "hgt"} |->
        IF n = "temp" THEN <<qObsTemp>> ELSE <<qLevHgt>>]] }

\* ------------------------------------------------------------------ state

VARIABLES
  querySet,              \* querySet_
  dp,                    \* dataProvider_: the current subset
  round,                 \* how many subsets the provider has advanced to
  variants,              \* whether a subset name may come with another shape
  targetCache,           \* targetCache_: subset name -> Targets
  maskCache,             \* maskCache_: subset name -> ProcessingMasks
  frames,                \* resultSet_: the DataFrames
  pc,                    \* where accumulate() stands
  targets,               \* accumulate's targets
  masks,                 \* accumulate's masks
  fresh,                 \* findTargets resolved (TRUE) or read the cache
  dataCursor,            \* collectData's locals
  currentPath,
  currentPathReturns,
  returnNodeIdx,
  lastNonZeroReturnIdx,
  dataTable,
  err,                   \* the exception a call ended with
  out                    \* what the last ResultSet::get call ended with
vars ==
  <<querySet, dp, round, variants, targetCache, maskCache, frames, pc, targets,
    masks, fresh, dataCursor, currentPath, currentPathReturns, returnNodeIdx,
    lastNonZeroReturnIdx, dataTable, err, out>>

collectVars ==
  <<dataCursor, currentPath, currentPathReturns, returnNodeIdx,
    lastNonZeroReturnIdx, dataTable>>

Prov == Shapes[dp.shape]

getNVal == Len(dp.inv)

getInv(cursor) == dp.inv[cursor]

getVal(cursor) == dp.val[cursor]

getSubset == dp.subset

NoMasks == [valueNodeMask |-> <<>>, pathNodeMask |-> <<>>]

NoTable == <<>>

\* No exception.
NoError == [kind |-> "none", what |-> ""]

\* No get call has returned since the caller last moved on.
NoResult == [called |-> FALSE]

InitCommon ==
  /\ querySet \in QuerySets
  /\ dp = [subset |-> "", shape |-> 1, inv |-> <<>>, val |-> <<>>]
  /\ round = 0
  /\ targetCache = <<>>
  /\ maskCache = <<>>
  /\ frames = <<>>
  /\ pc = "idle"
  /\ targets = <<>>
  /\ masks = NoMasks
  /\ fresh = FALSE
  /\ dataCursor = 0
  /\ currentPath = <<>>
  /\ currentPathReturns = <<>>
  /\ returnNodeIdx = -1
  /\ lastNonZeroReturnIdx = -1
  /\ dataTable = NoTable
  /\ err = NoError
  /\ out = NoResult

Init == InitCommon /\ variants = FALSE

\* The caller advances the provider to the next subset.
NextSubset ==
  /\ pc = "idle"
  /\ out = NoResult
  /\ round < MaxFrames
  /\ \E name \in SubsetNames, c \in 0..MaxRep, d \in InnerPatterns :
       \E shape \in (IF variants THEN 1..Len(Shapes) ELSE {HomeShape(name)}) :
         LET s == Stream(Shapes[shape], c, d, 100 * (round + 1))
         IN  dp' = [subset |-> name, shape |-> shape, inv |-> s.inv, val |-> s.val]
  /\ round' = round + 1
  /\ pc' = "loaded"
  /\ UNCHANGED <<querySet, variants, targetCache, maskCache, frames, targets,
                 masks, fresh, collectVars, err>>
  /\ UNCHANGED out

\* findTargets with caches that keep the latest resolved subset only: lines
\* 139-141 replacing the maps instead of inserting into them.
FindTargetsSingleEntry ==
  /\ pc = "loaded"
  /\ IF getSubset \in DOMAIN targetCache
     THEN /\ targets' = targetCache[getSubset]
          /\ masks' = maskCache[getSubset]
          /\ fresh' = FALSE
          /\ UNCHANGED <<targetCache, maskCache>>
     ELSE LET r == Resolve(Prov, querySet)
              m == [valueNodeMask |-> r.valueNodeMask,
                    pathNodeMask |-> r.pathNodeMask]
          IN  /\ targets' = r.targets
              /\ masks' = m
              /\ fresh' = TRUE
              /\ targetCache' = (getSubset :> r.targets)
              /\ maskCache' = (getSubset :> m)
  /\ pc' = "resolved"
  /\ UNCHANGED <<querySet, dp, round, variants, frames, collectVars, err>>
  /\ UNCHANGED out

\* findTargets, lines 52-142.
FindTargets ==
  /\ pc = "loaded"
  /\ IF getSubset \in DOMAIN targetCache
     THEN /\ targets' = targetCache[getSubset]
          /\ masks' = maskCache[getSubset]
          /\ fresh' = FALSE
          /\ UNCHANGED <<targetCache, maskCache>>
     ELSE LET r == Resolve(Prov, querySet)
              m == [valueNodeMask |-> r.valueNodeMask,
                    pathNodeMask |-> r.pathNodeMask]
          IN  /\ targets' = r.targets
              /\ masks' = m
              /\ fresh' = TRUE
              /\ targetCache' = (getSubset :> r.targets) @@ targetCache
              /\ maskCache' = (getSubset :> m) @@ maskCache
  /\ pc' = "resolved"
  /\ UNCHANGED <<querySet, dp, round, variants, frames, collectVars, err>>
  /\ UNCHANGED out

\* ------------------------------------------------- QueryRunner::collectData

\* The missing-value sentinel (10e10 in the code, beyond 32-bit integers):
\* a number larger than every value of a stream.
MissingValue == 999999999

NodeData == [values |-> <<>>, counts |-> <<>>]

Last(s) == s[Len(s)]

Front(s) == SubSeq(s, 1, Len(s) - 1)

\* What a read of mask[n] yields: the flag when n is inside the vector; beyond
\* its end the read is out of bounds and yields whatever g is.
ReadMask(mask, n, g) == IF MaskInRange(mask, n) THEN mask[n + 1] ELSE g

OobRead(mask, n) == IF MaskInRange(mask, n) THEN {FALSE} ELSE BOOLEAN

\* What a read of currentPathReturns[-1] can yield.
GarbageInts == {-1, 0, 1}

PushValue(dt, n, v) == [dt EXCEPT ![n].values = Append(@, v)]

PushCount(dt, n) == [dt EXCEPT ![n].counts = Append(@, 0)]

BackIncrement(dt, n) ==
  [dt EXCEPT ![n].counts = [@ EXCEPT ![Len(@)] = @ + 1]]

BackDecrement(dt, n) ==
  [dt EXCEPT ![n].counts = [@ EXCEPT ![Len(@)] = @ - 1]]

\* The counting test without its Sequence case: only the Repeat nodes of
\* delayed replications count.
CountsRepeatsOnly(p, nodeIdx) ==
  /\ getJmpb(p, nodeIdx) > 0
  /\ masks.pathNodeMask[getJmpb(p, nodeIdx) + 1]
  /\ getTyp(p, nodeIdx) \in {"Repeat", "StackedRepeat"}

\* Lines 464-477: whether the node at the cursor counts one more occurrence.
CountsOccurrence(p, nodeIdx) ==
  /\ getJmpb(p, nodeIdx) > 0
  /\ masks.pathNodeMask[getJmpb(p, nodeIdx) + 1]
  /\ LET typ == getTyp(p, nodeIdx)
         jmpbTyp == getTyp(p, getJmpb(p, nodeIdx))
     IN  \/ typ = "Sequence" /\ jmpbTyp \in {"Sequence", "DelayedBinary", "FixedRep"}
         \/ typ = "Repeat"
         \/ typ = "StackedRepeat"

\* Lines 480-482: whether the node at the cursor ends open sequences.
ExitsSequence(nodeIdx) ==
  /\ Len(currentPath) >= 1
  /\ \/ nodeIdx = returnNodeIdx
     \/ dataCursor = getNVal
     \/ Len(currentPath) > 1 /\ nodeIdx = Last(currentPath) + 1

\* Lines 486-497: pop both stacks down to lastNonZeroReturnIdx; a popped
\* delayed replication takes one off the last count of its child sequence.
RECURSIVE ExitLoop(_, _, _, _)
ExitLoop(p, pathIdx, lnz, st) ==
  IF pathIdx < lnz THEN st
  ELSE LET seqNodeIdx == Last(st.path)
           typSeqNode == getTyp(p, seqNodeIdx)
       IN  ExitLoop(p, pathIdx - 1, lnz,
             [path    |-> Front(st.path),
              returns |-> Front(st.returns),
              table   |-> IF typSeqNode \in {"DelayedRep", "DelayedRepStacked"}
                          THEN BackDecrement(st.table, seqNodeIdx + 1)
                          ELSE st.table])

\* Lines 441-502 at one cursor: capture the value, count, leave sequences.
ScanStep(p, nodeIdx, g) ==
  LET t1 == IF ReadMask(masks.valueNodeMask, nodeIdx, g)
            THEN PushValue(dataTable, nodeIdx, getVal(dataCursor))
            ELSE dataTable
      t2 == IF CountsOccurrence(p, nodeIdx) THEN BackIncrement(t1, nodeIdx) ELSE t1
      st == [path |-> currentPath, returns |-> currentPathReturns, table |-> t2]
  IN  IF ExitsSequence(nodeIdx)
      THEN ExitLoop(p, Len(currentPathReturns) - 1, lastNonZeroReturnIdx, st)
      ELSE st

\* Line 504: whether the node at the cursor opens a replication.
OpensReplication(p, nodeIdx, g) ==
  ReadMask(masks.pathNodeMask, nodeIdx, g) /\ isQueryNode(p, nodeIdx)

\* collectData starting on a result set whose nextDataFrame() hands out one
\* and the same frame again: the new frame takes the place of the frames.
CollectBeginSameFrame ==
  /\ pc = "resolved"
  /\ frames' = <<[fields |-> <<>>]>>
  /\ dataCursor' = 1
  /\ currentPath' = <<>>
  /\ currentPathReturns' = <<>>
  /\ returnNodeIdx' = -1
  /\ lastNonZeroReturnIdx' = -1
  /\ dataTable' = [n \in getInode(Prov)..getIsc(Prov, getInode(Prov)) |-> NodeData]
  /\ pc' = "scan"
  /\ UNCHANGED <<querySet, dp, round, variants, targetCache, maskCache, targets,
                 masks, fresh, err>>
  /\ UNCHANGED out

\* Lines 425-439.
CollectBegin ==
  /\ pc = "resolved"
  /\ frames' = Append(frames, [fields |-> <<>>])
  /\ dataCursor' = 1
  /\ currentPath' = <<>>
  /\ currentPathReturns' = <<>>
  /\ returnNodeIdx' = -1
  /\ lastNonZeroReturnIdx' = -1
  /\ dataTable' = [n \in getInode(Prov)..getIsc(Prov, getInode(Prov)) |-> NodeData]
  /\ pc' = "scan"
  /\ UNCHANGED <<querySet, dp, round, variants, targetCache, maskCache, targets,
                 masks, fresh, err>>
  /\ UNCHANGED out

\* Lines 441-502 for the node at the cursor, and line 504's test; when the
\* node opens no replication the loop body is over and the cursor moves on.
CollectScan ==
  /\ pc = "scan"
  /\ LET p == Prov
         nodeIdx == getInv(dataCursor)
         exits == ExitsSequence(nodeIdx)
     IN  \E g \in OobRead(masks.valueNodeMask, nodeIdx),
            h \in OobRead(masks.pathNodeMask, nodeIdx) :
           LET st == ScanStep(p, nodeIdx, g)
               emptied == exits /\ Len(st.returns) = 0
           IN  /\ currentPath' = st.path
               /\ currentPathReturns' = st.returns
               /\ dataTable' = st.table
               /\ IF exits
                  THEN /\ lastNonZeroReturnIdx' = Len(st.returns) - 1
                       /\ \E garbage \in (IF emptied THEN GarbageInts ELSE {0}) :
                            returnNodeIdx' =
                              IF emptied THEN garbage ELSE Last(st.returns)
                  ELSE UNCHANGED <<lastNonZeroReturnIdx, returnNodeIdx>>
               /\ IF OpensReplication(p, nodeIdx, h)
                  THEN pc' = "open" /\ dataCursor' = dataCursor
                  ELSE /\ dataCursor' = dataCursor + 1
                       /\ pc' = IF dataCursor = getNVal THEN "final" ELSE "scan"
  /\ UNCHANGED <<querySet, dp, round, variants, targetCache, maskCache, frames,
                 targets, masks, fresh, err>>
  /\ UNCHANGED out

\* Lines 520-528: look up the path for a return node that is not 0.
RECURSIVE WalkUp(_, _, _, _, _)
WalkUp(p, path, size, pathIdx, acc) ==
  IF pathIdx < 0 THEN acc
  ELSE LET ret == getLink(p, getJmpb(p, path[pathIdx + 1]))
           now == [returnNodeIdx |-> ret, lastNonZeroReturnIdx |-> size - pathIdx]
       IN  IF ret # 0 THEN now ELSE WalkUp(p, path, size, pathIdx - 1, now)

\* Lines 505-530 without the test of lines 505-507: a delayed binary node of
\* value 0 is pushed like every other replication.
OpenStepNoSkip(p, nodeIdx) ==
  LET path == Append(currentPath, nodeIdx)
      tmpReturnNodeIdx == getLink(p, nodeIdx)
      returns == Append(currentPathReturns, tmpReturnNodeIdx)
      up == IF dataCursor # getNVal
            THEN WalkUp(p, path, Len(returns), Len(path) - 1,
                        [returnNodeIdx |-> 0, lastNonZeroReturnIdx |-> 0])
            ELSE [returnNodeIdx |-> 0, lastNonZeroReturnIdx |-> 0]
  IN  [path |-> path, returns |-> returns,
       returnNodeIdx |->
         IF tmpReturnNodeIdx # 0 THEN tmpReturnNodeIdx ELSE up.returnNodeIdx,
       lastNonZeroReturnIdx |->
         IF tmpReturnNodeIdx # 0 THEN Len(returns) - 1
         ELSE up.lastNonZeroReturnIdx]

\* Lines 505-530: what opening the replication at the cursor does to the
\* stacks and the return bookkeeping.
OpenStep(p, nodeIdx) ==
  LET old == [path |-> currentPath, returns |-> currentPathReturns,
              returnNodeIdx |-> returnNodeIdx,
              lastNonZeroReturnIdx |-> lastNonZeroReturnIdx]
      path == Append(currentPath, nodeIdx)
      tmpReturnNodeIdx == getLink(p, nodeIdx)
      returns == Append(currentPathReturns, tmpReturnNodeIdx)
      up == IF dataCursor # getNVal
            THEN WalkUp(p, path, Len(returns), Len(path) - 1,
                        [returnNodeIdx |-> 0, lastNonZeroReturnIdx |-> 0])
            ELSE [returnNodeIdx |-> 0, lastNonZeroReturnIdx |-> 0]
  IN  IF getTyp(p, nodeIdx) = "DelayedBinary" /\ getVal(dataCursor) = 0
      THEN old
      ELSE [path |-> path, returns |-> returns,
            returnNodeIdx |->
              IF tmpReturnNodeIdx # 0 THEN tmpReturnNodeIdx ELSE up.returnNodeIdx,
            lastNonZeroReturnIdx |->
              IF tmpReturnNodeIdx # 0 THEN Len(returns) - 1
              ELSE up.lastNonZeroReturnIdx]

\* Line 532 with the entry appended to the counts of the replication node
\* itself instead of those of its child sequence.
OpenCountsAtNode(p, nodeIdx) == PushCount(dataTable, nodeIdx)

\* Line 532: the counts of the child sequence get a new entry.
OpenCounts(p, nodeIdx) == PushCount(dataTable, nodeIdx + 1)

\* Lines 504-533 for the replication node at the cursor.
CollectOpen ==
  /\ pc = "open"
  /\ LET p == Prov
         nodeIdx == getInv(dataCursor)
         st == OpenStep(p, nodeIdx)
     IN  /\ currentPath' = st.path
         /\ currentPathReturns' = st.returns
         /\ returnNodeIdx' = st.returnNodeIdx
         /\ lastNonZeroReturnIdx' = st.lastNonZeroReturnIdx
         /\ dataTable' = OpenCounts(p, nodeIdx)
  /\ dataCursor' = dataCursor + 1
  /\ pc' = IF dataCursor = getNVal THEN "final" ELSE "scan"
  /\ UNCHANGED <<querySet, dp, round, variants, targetCache, maskCache, frames,
                 targets, masks, fresh, err>>
  /\ UNCHANGED out

\* Lines 541-563: the field of one target.
MakeField(targ, table) ==
  IF targ.nodeIdx = 0
  THEN [target |-> targ, data |-> <<MissingValue>>, seqCounts |-> << <<1>> >>]
  ELSE [target |-> targ,
        data |-> table[targ.nodeIdx].values,
        seqCounts |-> << <<1>> >> \o
          [pathIdx \in 1..Len(targ.seqPath) |->
             table[targ.seqPath[pathIdx] + 1].counts]]

\* Lines 536-564, and accumulate() returns.
CollectFinish ==
  /\ pc = "final"
  /\ frames' = [frames EXCEPT ![Len(frames)].fields =
                  [targetIdx \in 1..Len(targets) |->
                     MakeField(targets[targetIdx], dataTable)]]
  /\ pc' = "idle"
  /\ targets' = <<>>
  /\ masks' = NoMasks
  /\ fresh' = FALSE
  /\ dataCursor' = 0
  /\ currentPath' = <<>>
  /\ currentPathReturns' = <<>>
  /\ returnNodeIdx' = -1
  /\ lastNonZeroReturnIdx' = -1
  /\ dataTable' = NoTable
  /\ UNCHANGED <<querySet, dp, round, variants, targetCache, maskCache, err>>
  /\ UNCHANGED out

\* --------------------------------------------------------------- ResultSet

\* VectorMath.h and <algorithm>, on vectors as sequences.
StdMax(a, b) == IF a < b THEN b ELSE a

StdMin(a, b) == IF b < a THEN b ELSE a

StdAbs(a) == IF a < 0 THEN -a ELSE a

RECURSIVE max(_)
max(v) ==
  IF Len(v) = 1 THEN v[1] ELSE StdMax(v[1], max(Tail(v)))

allEqual(v) == \A i \in 1..Len(v) : v[i] = v[1]

RECURSIVE product(_)
product(v) == IF v = <<>> THEN 1 ELSE v[1] * product(Tail(v))

\* product<int>(dims.begin() + from, dims.end())
ProductFrom(dims, from) == product(SubSeq(dims, from + 1, Len(dims)))

\* slice(v, idxs): the elements of v at the (0-based) indices idxs.
slice(v, idxs) == [i \in 1..Len(idxs) |-> v[idxs[i] + 1]]

SliceInRange(v, idxs) == \A i \in 1..Len(idxs) : idxs[i] < Len(v)

\* Lines 405-426: the non-empty pieces of a path between its '/' tokens.
splitPath(path) == SelectSeq(path, LAMBDA tok : tok # "/")

\* TypeInfo's predicates.
isString(info) == info.unit = "CCITT IA5"

isInteger(info) == info.scale <= 0

isSigned(info) == info.reference < 0

is64Bit(info) == info.bits > 32

\* An exception leaving get.
Thrown(kind, what) == [threw |-> TRUE, error |-> [kind |-> kind, what |-> what]]

\* The process ended on undefined behaviour.
Crashed == Thrown("crash", "undefined behaviour")

\* frame.getTargets()
getTargets(frame) ==
  [i \in 1..Len(frame.fields) |-> frame.fields[i].target]

\* frame[p->nodeId].counts for component pathIdx (from 0) of the path of the
\* field's own target: the counts collectData recorded for that level.
CountsAt(field, pathIdx) ==
  IF pathIdx < Len(field.seqCounts) THEN field.seqCounts[pathIdx + 1] ELSE <<>>

\* frame[nodeIdx].data: the values the frame holds for node nodeIdx, none
\* when no target of the frame is at that node.
DataAt(frame, nodeIdx) ==
  LET hits == {i \in 1..Len(frame.fields) :
                 frame.fields[i].target.nodeIdx = nodeIdx}
  IN  IF hits = {} THEN <<>>
      ELSE frame.fields[CHOOSE i \in hits : \A j \in hits : i <= j].data

\* The search of lines 75-81 ending on the last target when none is named
\* fieldName.
TargetIdxOrLast(targs, fieldName) ==
  LET hits == {i \in 1..Len(targs) : targs[i].name = fieldName}
  IN  IF hits = {} THEN Len(targs)
      ELSE CHOOSE i \in hits : \A j \in hits : i <= j

\* Lines 75-84: the index (from 1) of the first target named fieldName, one
\* past the end when there is none.
TargetIdxOf(targs, fieldName) ==
  LET hits == {i \in 1..Len(targs) : targs[i].name = fieldName}
  IN  IF hits = {} THEN Len(targs) + 1
      ELSE CHOOSE i \in hits : \A j \in hits : i <= j

\* Lines 93-112: whether the group-by target's last dim path and the
\* target's differ at a component from index 1 on.
PathsDiverge(groupByTarget, target) ==
  LET groupByPathComps == splitPath(Last(groupByTarget.dimPaths))
      targetPathComps == splitPath(Last(target.dimPaths))
  IN  \E i \in 1..(StdMin(Len(groupByPathComps), Len(targetPathComps)) - 1) :
        targetPathComps[i + 1] # groupByPathComps[i + 1]

\* Lines 86-90: the lookup of the group-by target is commented out.
NullTarget == [name |-> "", nodeIdx |-> -1]

GroupByTargetOf(targs, groupByField) == NullTarget

\* Lines 127-137: the jagged flag after one counts vector.
JaggedAfter(jagged, counts, dimVal, newDimVal) ==
  IF jagged THEN TRUE
  ELSE IF ~allEqual(counts) THEN TRUE
  ELSE IF dimVal # 0 THEN dimVal # newDimVal
  ELSE FALSE

\* Lines 122-141: the path components of one frame's target, all but the
\* last, update dimsList and jagged; an empty counts vector ends the loop.
RECURSIVE PathLoop(_, _, _)
PathLoop(field, pathIdx, acc) ==
  IF pathIdx >= Len(field.target.path) - 1 THEN acc
  ELSE IF CountsAt(field, pathIdx) = <<>> THEN acc
  ELSE IF pathIdx >= Len(acc.dimsList) THEN [acc EXCEPT !.ub = TRUE]
  ELSE PathLoop(field, pathIdx + 1,
         [acc EXCEPT
            !.dimsList[pathIdx + 1] = StdMax(@, max(CountsAt(field, pathIdx))),
            !.jagged = JaggedAfter(@, CountsAt(field, pathIdx),
                         acc.dimsList[pathIdx + 1],
                         StdMax(acc.dimsList[pathIdx + 1],
                                max(CountsAt(field, pathIdx))))])

\* Lines 143-152: the merged type information.
MergeInfo(info, typeInfo) ==
  [reference |-> StdMin(info.reference, typeInfo.reference),
   bits      |-> StdMax(info.bits, typeInfo.bits),
   scale     |-> IF StdAbs(typeInfo.scale) > info.scale
                 THEN typeInfo.scale ELSE info.scale,
   unit      |-> IF info.unit = "" THEN typeInfo.unit ELSE info.unit]

\* Lines 117-162 for frame f and the frames after it. A target without path
\* makes line 122 compare against end() - 1 of an empty vector: undefined;
\* when the process goes on, the loop is taken to end at once.
RECURSIVE DimsLoop(_, _, _, _)
DimsLoop(fr, targetIdx, f, acc) ==
  IF f > Len(fr) THEN acc
  ELSE DimsLoop(fr, targetIdx, f + 1,
         LET field == fr[f].fields[targetIdx]
             target == field.target
             a == IF Len(target.path) = 0
                  THEN [acc EXCEPT !.ub = TRUE]
                  ELSE PathLoop(field, 0, acc)
             takes == target.dimPaths # <<>>
                        /\ Len(a.dimPaths) < Len(target.dimPaths)
         IN  [a EXCEPT
                !.info = MergeInfo(@, target.typeInfo),
                !.dimPaths = IF takes THEN target.dimPaths ELSE @,
                !.exportDims = IF takes THEN target.exportDimIdxs ELSE @])

\* Lines 213-220: the insert array of one frame.
InsertsOf(dims, field) ==
  [k \in 1..Len(dims) |->
     IF k - 1 < StdMin(Len(dims), Len(field.target.path))
     THEN [i \in 1..Len(CountsAt(field, k - 1)) |->
             ProductFrom(dims, k - 1)
               - CountsAt(field, k - 1)[i] * ProductFrom(dims, k)]
     ELSE <<0>>]

\* Lines 234-240: every index above data_idx moves up by num_inserts.
Shift(idxs, data_idx, num_inserts) ==
  [i \in 1..Len(idxs) |->
     IF idxs[i] > data_idx THEN idxs[i] + num_inserts ELSE idxs[i]]

\* Lines 225-242 for one dimension, insert after insert.
RECURSIVE InsertLoop(_, _, _, _, _)
InsertLoop(idxs, dims, inserts, dim_idx, insert_idx) ==
  IF insert_idx >= Len(inserts[dim_idx + 1]) THEN idxs
  ELSE InsertLoop(
         IF inserts[dim_idx + 1][insert_idx + 1] > 0
         THEN Shift(idxs,
                    ProductFrom(dims, dim_idx) * insert_idx
                      + ProductFrom(dims, dim_idx)
                      - inserts[dim_idx + 1][insert_idx + 1] - 1,
                    inserts[dim_idx + 1][insert_idx + 1])
         ELSE idxs,
         dims, inserts, dim_idx, insert_idx + 1)

\* Lines 223-243: from the innermost dimension outwards.
RECURSIVE InflateLoop(_, _, _, _)
InflateLoop(idxs, dims, inserts, dim_idx) ==
  IF dim_idx < 0 THEN idxs
  ELSE InflateLoop(InsertLoop(idxs, dims, inserts, dim_idx, 0),
                   dims, inserts, dim_idx - 1)

\* Lines 204-243 and 252: where the elements of a fragment go in the row.
FragmentIdxs(jagged, dims, field, fragment) ==
  IF jagged
  THEN InflateLoop([i \in 1..Len(fragment) |-> i - 1], dims,
                   InsertsOf(dims, field), Len(dims) - 1)
  ELSE [i \in 1..Len(fragment) |-> i - 1]

\* Lines 245-253: fragment[i] is written at offset + idxs[i]; a write past
\* the end of data is undefined and, when the process goes on, not seen.
WriteFragment(acc, idxs, fragment, offset) ==
  [data |-> [j \in 1..Len(acc.data) |->
               LET from == {i \in 1..Len(idxs) : idxs[i] + offset = j - 1}
               IN  IF from = {} THEN acc.data[j]
                   ELSE fragment[CHOOSE i \in from : \A k \in from : k <= i]],
   ub   |-> acc.ub \/ \E i \in 1..Len(idxs) :
              idxs[i] + offset < 0 \/ idxs[i] + offset >= Len(acc.data)]

\* Lines 192-254 for frame f and the frames after it: the fragment is read
\* with the target of the iteration before (line 195), then the target
\* becomes this frame's (lines 197-198).
RECURSIVE CopyLoop(_, _, _, _, _, _, _)
CopyLoop(fr, targetIdx, f, target, jagged, dims, acc) ==
  IF f > Len(fr) THEN acc
  ELSE CopyLoop(fr, targetIdx, f + 1, fr[f].fields[targetIdx].target,
                jagged, dims,
                WriteFragment(acc,
                  FragmentIdxs(jagged, dims, fr[f].fields[targetIdx],
                               DataAt(fr[f], target.nodeIdx)),
                  DataAt(fr[f], target.nodeIdx),
                  (f - 1) * ProductFrom(dims, 1)))

\* Lines 164-258 without line 257: the first dimension stays the one of a
\* single frame.
RawValuesOfPerFrame(fr, targetIdx, found) ==
  LET dims == found.dimsList
      rowLength == ProductFrom(dims, 1)
      totalRows == Len(fr)
      target == Last(fr).fields[targetIdx].target
      copied == CopyLoop(fr, targetIdx, 1, target, found.jagged, dims,
                  [data |-> [j \in 1..(totalRows * rowLength) |-> MissingValue],
                   ub |-> found.ub])
      sliced == dims # <<>> /\ SliceInRange(dims, target.exportDimIdxs)
  IN  [threw |-> FALSE,
       targetIdx |-> targetIdx,
       data |-> copied.data,
       dims |-> IF sliced THEN slice(dims, target.exportDimIdxs) ELSE <<>>,
       dimsList |-> dims,
       dimPaths |-> found.dimPaths,
       info |-> found.info,
       jagged |-> found.jagged,
       ub |-> copied.ub \/ ~sliced]

\* Lines 164-258, given what the loop over the frames found.
RawValuesOf(fr, targetIdx, found) ==
  LET dims == found.dimsList
      rowLength == ProductFrom(dims, 1)
      totalRows == Len(fr)
      target == Last(fr).fields[targetIdx].target
      copied == CopyLoop(fr, targetIdx, 1, target, found.jagged, dims,
                  [data |-> [j \in 1..(totalRows * rowLength) |-> MissingValue],
                   ub |-> found.ub])
      sliced == dims # <<>> /\ SliceInRange(dims, target.exportDimIdxs)
  IN  [threw |-> FALSE,
       targetIdx |-> targetIdx,
       data |-> copied.data,
       dims |-> IF sliced
                THEN slice([dims EXCEPT ![1] = totalRows], target.exportDimIdxs)
                ELSE <<>>,
       dimsList |-> dims,
       dimPaths |-> found.dimPaths,
       info |-> found.info,
       jagged |-> found.jagged,
       ub |-> copied.ub \/ ~sliced]

\* Lines 71-258: getRawValues on a result set that has frames.
RawValuesOfFrames(fr, fieldName, groupByField) ==
  IF TargetIdxOf(getTargets(fr[1]), fieldName) > Len(fr[1].fields)
    THEN Thrown("out_of_range", "vector::at")
  ELSE IF /\ GroupByTargetOf(getTargets(fr[1]), groupByField) # NullTarget
          /\ PathsDiverge(GroupByTargetOf(getTargets(fr[1]), groupByField),
               getTargets(fr[1])[TargetIdxOf(getTargets(fr[1]), fieldName)])
    THEN Thrown("BadValue", "do not share a common path")
  ELSE IF Len(getTargets(fr[1])[TargetIdxOf(getTargets(fr[1]), fieldName)].path) = 0
    THEN Thrown("length_error", "vector::resize")
  ELSE RawValuesOf(fr, TargetIdxOf(getTargets(fr[1]), fieldName),
         DimsLoop(fr, TargetIdxOf(getTargets(fr[1]), fieldName), 1,
           [dimsList |->
              [k \in 1..(Len(getTargets(fr[1])[
                   TargetIdxOf(getTargets(fr[1]), fieldName)].path) - 1) |-> 0],
            jagged |-> FALSE, info |-> DefaultTypeInfo,
            dimPaths |-> <<>>, exportDims |-> <<>>, ub |-> FALSE]))

\* getRawValues without lines 66-69: front() of no frames is undefined.
getRawValuesUnguarded(fr, fieldName, groupByField) ==
  IF Len(fr) = 0 THEN Crashed
  ELSE RawValuesOfFrames(fr, fieldName, groupByField)

\* Lines 58-258.
getRawValues(fr, fieldName, groupByField) ==
  IF Len(fr) = 0 THEN Thrown("BadValue", "No data was found.")
  ELSE RawValuesOfFrames(fr, fieldName, groupByField)

\* Lines 323-369.
objectByTypeInfo(info) ==
  IF isString(info) THEN "string"
  ELSE IF isInteger(info)
    THEN IF isSigned(info)
         THEN (IF is64Bit(info) THEN "int64" ELSE "int32")
         ELSE (IF is64Bit(info) THEN "uint64" ELSE "uint32")
  ELSE IF is64Bit(info) THEN "double" ELSE "float"

\* Lines 371-403.
objectByType(overrideType) ==
  IF overrideType \in {"int", "int32"} THEN [threw |-> FALSE, type |-> "int32"]
  ELSE IF overrideType \in {"float", "double", "string", "int64"}
    THEN [threw |-> FALSE, type |-> overrideType]
  ELSE Thrown("BadParameter", "Unknown or unsupported type")

\* makeDataObject without the test of lines 304-311.
makeDataObjectUnchecked(fieldName, groupByFieldName, overrideType, raw) ==
  IF overrideType # "" /\ objectByType(overrideType).threw
  THEN objectByType(overrideType)
  ELSE [threw |-> FALSE,
        object |-> [type |-> IF overrideType = "" THEN objectByTypeInfo(raw.info)
                             ELSE objectByType(overrideType).type,
                    data |-> raw.data, dims |-> raw.dims,
                    fieldName |-> fieldName,
                    groupByFieldName |-> groupByFieldName,
                    dimPaths |-> raw.dimPaths]]

\* Lines 286-321.
makeDataObject(fieldName, groupByFieldName, overrideType, raw) ==
  IF overrideType = ""
  THEN [threw |-> FALSE,
        object |-> [type |-> objectByTypeInfo(raw.info), data |-> raw.data,
                    dims |-> raw.dims, fieldName |-> fieldName,
                    groupByFieldName |-> groupByFieldName,
                    dimPaths |-> raw.dimPaths]]
  ELSE IF objectByType(overrideType).threw THEN objectByType(overrideType)
  ELSE IF \/ overrideType = "string" /\ ~isString(raw.info)
          \/ overrideType # "string" /\ isString(raw.info)
    THEN Thrown("BadParameter",
                "Conversions between numbers and strings are not currently supported.")
  ELSE [threw |-> FALSE,
        object |-> [type |-> objectByType(overrideType).type, data |-> raw.data,
                    dims |-> raw.dims, fieldName |-> fieldName,
                    groupByFieldName |-> groupByFieldName,
                    dimPaths |-> raw.dimPaths]]

\* No data object.
NoObject == [type |-> "none"]

\* What a get call ended with, given what getRawValues and makeDataObject
\* gave: undefined behaviour on the way either ended the process or went
\* unnoticed.
Outcome(fieldName, groupByFieldName, overrideType, raw, made) ==
  [called |-> TRUE, fieldName |-> fieldName,
   groupByFieldName |-> groupByFieldName, overrideType |-> overrideType,
   raw |-> raw,
   threw |-> made.threw,
   error |-> IF made.threw THEN made.error ELSE NoError,
   object |-> IF made.threw THEN NoObject ELSE made.object]

\* Lines 30-56.
get(fr, fieldName, groupByFieldName, overrideType, raw, crash) ==
  IF raw.threw
  THEN Outcome(fieldName, groupByFieldName, overrideType, raw, raw)
  ELSE IF raw.ub /\ crash
    THEN Outcome(fieldName, groupByFieldName, overrideType, raw, Crashed)
  ELSE Outcome(fieldName, groupByFieldName, overrideType, raw,
               makeDataObject(fieldName, groupByFieldName, overrideType, raw))

\* The field names, group-by names and override types the caller passes.
GetFieldNames == {querySet.names[i] : i \in DOMAIN querySet.names} \cup {"nofield"}

GetGroupBys == {"", querySet.names[1]}

OverrideTypes ==
  {"", "int", "int32", "int64", "float", "double", "string", "uint8"}

\* The caller asks the result set for a field.
Get ==
  /\ pc = "idle"
  /\ out = NoResult
  /\ \E fieldName \in GetFieldNames, groupByFieldName \in GetGroupBys,
        overrideType \in OverrideTypes :
       \E raw \in {getRawValues(frames, fieldName, groupByFieldName)} :
         \E crash \in (IF raw.threw THEN {FALSE} ELSE {FALSE, raw.ub}) :
           out' = get(frames, fieldName, groupByFieldName, overrideType, raw, crash)
  /\ UNCHANGED <<querySet, dp, round, variants, targetCache, maskCache, frames,
                 pc, targets, masks, fresh, collectVars, err>>

\* The caller lets go of what get returned and moves on.
DropResult ==
  /\ out # NoResult
  /\ out' = NoResult
  /\ UNCHANGED <<querySet, dp, round, variants, targetCache, maskCache, frames,
                 pc, targets, masks, fresh, collectVars, err>>

Next ==
  \/ NextSubset
  \/ FindTargets
  \/ CollectBegin
  \/ CollectScan
  \/ CollectOpen
  \/ CollectFinish
  \/ Get
  \/ DropResult

Spec == Init /\ [][Next]_vars

\* ============================================================ properties
\* ------------------------------------------------------- target resolution

\* The sub-queries of a name that have a table node in the current subset.
ResolvingQueries(name) ==
  {j \in 1..Len(querySet.queries[name]) :
     getNodeForPath(Prov, querySet.queries[name][j].path) # 0}

FirstResolving(name) ==
  CHOOSE j \in ResolvingQueries(name) : \A k \in ResolvingQueries(name) : j <= k

\* findTargets has just resolved the current subset (no cache hit).
JustResolved == pc = "resolved" /\ fresh

\* C1: when findTargets resolves a subset, the target of every name that has
\* a resolving sub-query is built from the first such sub-query in the query
\* set's order: its query string, its table node, its path components; the
\* sub-queries after it decide nothing.
C1_FirstSubQueryWins ==
  JustResolved =>
    /\ Len(targets) = Len(querySet.names)
    /\ \A i \in 1..Len(querySet.names) :
         LET name == querySet.names[i]
             qs == querySet.queries[name]
         IN  ResolvingQueries(name) # {} =>
               LET q == qs[FirstResolving(name)]
               IN  /\ targets[i].name = name
                   /\ targets[i].queryStr = q.queryStr
                   /\ targets[i].nodeIdx = getNodeForPath(Prov, q.path)
                   /\ Len(targets[i].path) = Len(q.path) + 1
                   /\ \A k \in 1..Len(q.path) :
                        targets[i].path[k + 1].queryComponent = q.path[k]

\* C1 witness: a name whose first sub-query does not resolve, whose second
\* does, and whose third would resolve to another node.
C1_Witness ==
  /\ JustResolved
  /\ \E i \in 1..Len(querySet.names) :
       LET name == querySet.names[i]
           qs == querySet.queries[name]
       IN  /\ ResolvingQueries(name) # {}
           /\ FirstResolving(name) > 1
           /\ \E k \in ResolvingQueries(name) :
                /\ k > FirstResolving(name)
                /\ getNodeForPath(Prov, qs[k].path) # targets[i].nodeIdx
           /\ targets[i].nodeIdx # 0

\* C2: when no sub-query of a name resolves, findTargets emits the empty
\* target (the name, the query string of the name's first sub-query, nodeIdx
\* 0, the single dimension path "*", export dimension index 0, default type
\* info), sets no mask bit for it and goes on with the next name.
C2_EmptyTarget ==
  JustResolved =>
    /\ Len(targets) = Len(querySet.names)
    /\ \A i \in 1..Len(querySet.names) :
         LET name == querySet.names[i]
         IN  ResolvingQueries(name) = {} =>
               /\ targets[i] =
                    [name |-> name,
                     queryStr |-> querySet.queries[name][1].queryStr,
                     nodeIdx |-> 0, path |-> <<>>, seqPath |-> <<>>,
                     typeInfo |-> DefaultTypeInfo,
                     dimPaths |-> << <<"*">> >>, exportDimIdxs |-> <<0>>]
               /\ ~masks.valueNodeMask[1]
               /\ ~masks.pathNodeMask[1]
               /\ \A n \in 1..Len(masks.valueNodeMask) :
                    masks.valueNodeMask[n] =>
                      \E k \in 1..Len(targets) :
                        targets[k].nodeIdx # 0 /\ targets[k].nodeIdx = n - 1

\* C2 witness: a name without a resolving sub-query is followed by a name
\* that resolves.
C2_Witness ==
  /\ JustResolved
  /\ \E i \in 1..Len(querySet.names) :
       /\ ResolvingQueries(querySet.names[i]) = {}
       /\ targets[i].nodeIdx = 0
       /\ \E k \in (i + 1)..Len(querySet.names) : targets[k].nodeIdx # 0

\* A sub-query names a subset other than the current one.
SubsetMismatch(q) == ~q.subset.isAnySubset /\ q.subset.name # getSubset

\* C3: a name each of whose sub-queries names another subset than the
\* current one gets the empty target.
C3_SubsetMismatchIsEmpty ==
  JustResolved =>
    \A i \in 1..Len(querySet.names) :
      LET qs == querySet.queries[querySet.names[i]]
      IN  (\A j \in 1..Len(qs) : SubsetMismatch(qs[j])) =>
            targets[i].nodeIdx = 0

\* The node indices of the resolved targets, and of their sequence paths.
ResolvedNodes == {targets[i].nodeIdx : i \in {k \in 1..Len(targets) : targets[k].nodeIdx # 0}}

ResolvedSeqNodes ==
  UNION {{targets[i].seqPath[k] : k \in 1..Len(targets[i].seqPath)} :
           i \in {k \in 1..Len(targets) : targets[k].nodeIdx # 0}}

\* C4: valueNodeMask[n] is true exactly for the node indices of the resolved
\* targets and pathNodeMask[n] exactly for the entries of their sequence
\* paths; in particular both masks have these flags: each such index is an
\* element of the mask.
C4_MaskIff ==
  pc = "resolved" =>
    /\ \A n \in ResolvedNodes : MaskInRange(masks.valueNodeMask, n)
    /\ \A n \in ResolvedSeqNodes : MaskInRange(masks.pathNodeMask, n)
    /\ \A n \in 0..(Len(masks.valueNodeMask) - 1) :
         masks.valueNodeMask[n + 1] <=> n \in ResolvedNodes
    /\ \A n \in 0..(Len(masks.pathNodeMask) - 1) :
         masks.pathNodeMask[n + 1] <=> n \in ResolvedSeqNodes

\* C6: the two caches are write-once. They always have the same subset names
\* as keys; findTargets inserts the entry of a subset name the first time it
\* sees the name (and nothing else is ever inserted); no later step of
\* findTargets or collectData changes or removes an entry.
C6_CachesWriteOnce ==
  /\ DOMAIN targetCache = DOMAIN maskCache
  /\ [][ /\ DOMAIN targetCache' = DOMAIN maskCache'
         /\ \A name \in DOMAIN targetCache :
              /\ name \in DOMAIN targetCache'
              /\ targetCache'[name] = targetCache[name]
              /\ maskCache'[name] = maskCache[name]
         /\ DOMAIN targetCache' \subseteq DOMAIN targetCache \cup {getSubset}
         /\ (pc = "loaded" /\ pc' = "resolved") =>
              getSubset \in DOMAIN targetCache' ]_vars

\* C6 witness: a second subset is answered from the caches after a frame was
\* collected, and a cache holds an entry of a name seen before.
C6_Witness ==
  /\ pc = "resolved"
  /\ ~fresh
  /\ Len(frames) >= 1
  /\ getSubset \in DOMAIN targetCache
  /\ targets = targetCache[getSubset]
  /\ masks = maskCache[getSubset]

\* ------------------------------------------------ subsets of varying shape

\* A message stream in which the table of a subset name is not fixed: a
\* subset may arrive under a name that an earlier subset of another table
\* shape carried. Only target resolution is followed here.
InitVariant == InitCommon /\ variants = TRUE

\* The targets and masks findTargets returned go out of scope.
ReleaseTargets ==
  /\ pc = "resolved"
  /\ pc' = "idle"
  /\ targets' = <<>>
  /\ masks' = NoMasks
  /\ fresh' = FALSE
  /\ UNCHANGED <<querySet, dp, round, variants, targetCache, maskCache, frames,
                 collectVars, err>>
  /\ UNCHANGED out

NextVariant ==
  \/ NextSubset
  \/ FindTargets
  \/ ReleaseTargets

SpecVariant == InitVariant /\ [][NextVariant]_vars

\* C5: what findTargets returns for a subset equals a fresh resolution of the
\* query set against that subset's own table shape, also when an earlier
\* subset with the same name had another table shape.
C5_ResolutionIsPure ==
  pc = "resolved" =>
    LET r == Resolve(Prov, querySet)
    IN  /\ targets = r.targets
        /\ masks = [valueNodeMask |-> r.valueNodeMask,
                    pathNodeMask |-> r.pathNodeMask]

\* ------------------------------------------------------------- collection

\* The values of the current subset's stream at the cursors of node n, in
\* cursor order.
StreamValuesOf(n) ==
  LET cs == SetToSortedSeq({c \in 1..getNVal : getInv(c) = n})
  IN  [k \in 1..Len(cs) |-> getVal(cs[k])]

\* accumulate() has returned with the frame of the current subset.
FrameDone == pc = "idle" /\ frames # <<>>

\* C9: the data of every resolved target's field in the frame collectData
\* produced is exactly the sequence of val(c) for the cursors c in 1..nVal
\* with inv(c) = nodeIdx, in increasing cursor order.
C9_FieldDataIsStream ==
  FrameDone =>
    \A i \in 1..Len(Last(frames).fields) :
      LET field == Last(frames).fields[i]
      IN  field.target.nodeIdx # 0 =>
            field.data = StreamValuesOf(field.target.nodeIdx)

\* The open step at a path-masked DelayedBinary node whose value is 0.
AbsentSubtreeStep ==
  /\ pc = "open"
  /\ getTyp(Prov, getInv(dataCursor)) = "DelayedBinary"
  /\ getVal(dataCursor) = 0

\* C10 as stated: that step leaves currentPath, currentPathReturns,
\* returnNodeIdx, lastNonZeroReturnIdx and every counts vector of the data
\* table, the one of node n + 1 included, unchanged.
C10_AbsentSubtreeNoEffect ==
  [][AbsentSubtreeStep =>
       /\ UNCHANGED <<currentPath, currentPathReturns, returnNodeIdx,
                      lastNonZeroReturnIdx>>
       /\ \A n \in DOMAIN dataTable :
            dataTable'[n].counts = dataTable[n].counts]_vars

\* C10 amended: that step leaves the two stacks, the return bookkeeping,
\* every values vector and every counts vector but one unchanged; the counts
\* vector of node n + 1 gets the entry 0 appended.
C10_AbsentSubtreeOpensCount ==
  [][AbsentSubtreeStep =>
       /\ UNCHANGED <<currentPath, currentPathReturns, returnNodeIdx,
                      lastNonZeroReturnIdx>>
       /\ DOMAIN dataTable' = DOMAIN dataTable
       /\ \A n \in DOMAIN dataTable :
            /\ dataTable'[n].values = dataTable[n].values
            /\ dataTable'[n].counts =
                 IF n = getInv(dataCursor) + 1
                 THEN Append(dataTable[n].counts, 0)
                 ELSE dataTable[n].counts]_vars

\* C10 witness: the cursor has just passed a path-masked DelayedBinary node
\* of value 0; nothing is on the stack and the child sequence has the count 0.
C10_Witness ==
  /\ pc \in {"scan", "final"}
  /\ dataCursor > 1
  /\ getTyp(Prov, getInv(dataCursor - 1)) = "DelayedBinary"
  /\ getVal(dataCursor - 1) = 0
  /\ masks.pathNodeMask[getInv(dataCursor - 1) + 1]
  /\ currentPath = <<>>
  /\ dataTable[getInv(dataCursor - 1) + 1].counts = <<0>>

\* -------------------------------------------------- QueryRunner::findTarget

\* Lines 245-252: the subset component and one component per path element,
\* the last of type Value, the others of type Repeat, all of branch 0.
InitialComponents(query) ==
  [k \in 1..(Len(query.path) + 1) |->
     IF k = 1
     THEN [queryComponent |-> query.subset, branch |-> 0, type |-> "Subset"]
     ELSE [queryComponent |-> query.path[k - 1], branch |-> 0,
           type |-> IF k = Len(query.path) + 1 THEN "Value" ELSE "Repeat"]]

\* Lines 263-284: the node enters a sequence, or is an endpoint of the query.
\* The cursors count from -1 as in the code; sequences count from 1.
VisitNode(p, query, nodeIdx, st) ==
  IF getTyp(p, nodeIdx) \in {"Sequence", "Repeat", "StackedRepeat"}
  THEN LET entered ==
             IF isQueryNode(p, nodeIdx - 1)
             THEN LET match ==
                        /\ getTag(p, nodeIdx) = query.path[st.mnemonicCursor + 2].name
                        /\ st.tableCursor = st.mnemonicCursor
                      mc == IF match THEN st.mnemonicCursor + 1 ELSE st.mnemonicCursor
                  IN  [st EXCEPT
                         !.mnemonicCursor = mc,
                         !.targetComponents =
                            IF match THEN [@ EXCEPT ![mc + 2].branch = nodeIdx - 1]
                            ELSE @,
                         !.tableCursor = @ + 1]
             ELSE st
       IN  [entered EXCEPT !.seqPath = Append(@, nodeIdx)]
  ELSE IF /\ st.mnemonicCursor = Len(query.path) - 2
          /\ st.tableCursor = st.mnemonicCursor
          /\ getTag(p, nodeIdx) = Last(query.path).name
       THEN LET dims == getDimInfo(p,
                          [b \in 1..(st.mnemonicCursor + 1) |->
                             st.targetComponents[b + 1].branch])
            IN  [st EXCEPT !.targetNodes = Append(@, nodeIdx),
                           !.dimPaths = dims.dimPaths,
                           !.dimIdxs = dims.dimIdxs]
       ELSE st

\* Lines 293-311: skip pure sequences that are not the body of a replication.
RECURSIVE SkipPureSequences(_, _)
SkipPureSequences(p, jumpBackNode) ==
  IF /\ getTyp(p, jumpBackNode) = "Sequence"
     /\ getTyp(p, jumpBackNode - 1) \notin
          {"DelayedRep", "FixedRep", "DelayedRepStacked", "DelayedBinary"}
  THEN LET newJumpBackNode == getJmpb(p, jumpBackNode)
       IN  IF newJumpBackNode # jumpBackNode
           THEN SkipPureSequences(p, newJumpBackNode)
           ELSE jumpBackNode
  ELSE jumpBackNode

\* Lines 288-312: the node the next node jumps back to.
JumpBackNode(p, nodeIdx) ==
  IF nodeIdx < getIsc(p, getInode(p))
  THEN LET j == getJmpb(p, nodeIdx + 1)
       IN  SkipPureSequences(p, IF j = 0 THEN getInode(p) ELSE j)
  ELSE getInode(p)

\* Lines 318-331: leave the sequences above position pathIdx of seqPath
\* (positions count from 0 as in the code).
RECURSIVE Rewind(_, _, _, _)
Rewind(p, st, rewindIdx, pathIdx) ==
  IF rewindIdx <= pathIdx THEN st
  ELSE LET exits == isQueryNode(p, st.seqPath[rewindIdx + 1] - 1)
           back == exits /\ st.mnemonicCursor > -1
                         /\ st.tableCursor = st.mnemonicCursor
       IN  Rewind(p,
             [st EXCEPT
                !.mnemonicCursor = IF back THEN @ - 1 ELSE @,
                !.tableCursor = IF exits THEN @ - 1 ELSE @,
                !.seqPath = Front(@)],
             rewindIdx - 1, pathIdx)

\* Lines 285-335: step back up the tree after the node.
StepBack(p, nodeIdx, st) ==
  IF Len(st.seqPath) > 1
  THEN LET jumpBackNode == JumpBackNode(p, nodeIdx)
           hits == {pathIdx \in 0..(Len(st.seqPath) - 2) :
                      st.seqPath[pathIdx + 1] = jumpBackNode}
       IN  IF hits = {} THEN st
           ELSE Rewind(p, st, Len(st.seqPath) - 1,
                       CHOOSE h \in hits : \A k \in hits : k <= h)
  ELSE st

\* Lines 259-336: the walk over the subset's nodes.
RECURSIVE NodeLoop(_, _, _, _)
NodeLoop(p, query, nodeIdx, st) ==
  IF nodeIdx > getIsc(p, getInode(p)) THEN st
  ELSE NodeLoop(p, query, nodeIdx + 1,
                StepBack(p, nodeIdx, VisitNode(p, query, nodeIdx, st)))

\* Lines 240-336: the endpoints of a query, in increasing node order.
FindTargetNodes(p, query) ==
  NodeLoop(p, query, getInode(p),
    [mnemonicCursor |-> -1, tableCursor |-> -1, seqPath |-> <<getInode(p)>>,
     targetNodes |-> <<>>, targetComponents |-> InitialComponents(query),
     dimPaths |-> <<>>, dimIdxs |-> <<>>])

\* Lines 338-342 with the index picking from the front whatever it is.
NarrowToFirst(targetNodes, index) ==
  IF index > 0 /\ index <= Len(targetNodes)
  THEN <<targetNodes[1]>>
  ELSE targetNodes

\* Lines 338-342: an index within the endpoints narrows to that endpoint;
\* any other index leaves the endpoints as they are.
NarrowTargets(targetNodes, index) ==
  IF index > 0 /\ index <= Len(targetNodes)
  THEN <<targetNodes[index]>>
  ELSE targetNodes

\* Lines 344-369: the exception when more than one endpoint is left, else
\* the target of the endpoint that is left, or of none.
TargetOfNodes(p, targetName, query, st, targetNodes) ==
  IF Len(targetNodes) > 1
  THEN [threw |-> TRUE,
        error |-> [kind |-> "BadParameter", what |-> query.queryStr]]
  ELSE [threw |-> FALSE,
        target |->
          [name |-> targetName, queryStr |-> query.queryStr,
           nodeIdx |-> IF Len(targetNodes) > 0 THEN targetNodes[1] ELSE 0,
           path |-> st.targetComponents,
           seqPath |-> SeqPathOf(st.targetComponents),
           typeInfo |-> IF Len(targetNodes) > 0
                        THEN getTypeInfo(p, targetNodes[1])
                        ELSE DefaultTypeInfo,
           dimPaths |-> IF Len(targetNodes) > 0 THEN st.dimPaths
                        ELSE << <<"*">> >>,
           exportDimIdxs |-> IF Len(targetNodes) > 0 THEN st.dimIdxs
                             ELSE <<0>>]]

\* Lines 338-369 after the walk that ended in st.
TargetOfWalk(p, targetName, query, st) ==
  TargetOfNodes(p, targetName, query, st,
                NarrowTargets(st.targetNodes, Last(query.path).index))

\* Lines 224-371: the target of one query, or the exception of lines 344-349.
findTarget(p, subset, targetName, query) ==
  IF ~(query.subset.isAnySubset \/ query.subset.name = subset)
  THEN [threw |-> FALSE, target |-> EmptyTarget(targetName, query.queryStr)]
  ELSE TargetOfWalk(p, targetName, query, FindTargetNodes(p, query))

\* ---------------------------------------------- QueryRunner::old_findTargets

\* Lines 170-187: the sub-queries of a name, until one has a node or throws;
\* r is what findTarget returned for the sub-query before.
RECURSIVE OldSubQueryLoop(_, _, _, _, _, _)
OldSubQueryLoop(p, subset, queryName, subQueries, subQueryIdx, r) ==
  IF r.threw THEN r
  ELSE IF r.target.nodeIdx > 0 THEN r
  ELSE IF subQueryIdx > Len(subQueries) THEN r
  ELSE OldSubQueryLoop(p, subset, queryName, subQueries, subQueryIdx + 1,
                       findTarget(p, subset, queryName, subQueries[subQueryIdx]))

\* Lines 176-187 and 189-193: the masks and the target list after the
\* sub-queries of one name ended in r.
AddTarget(acc, r) ==
  IF r.threw
  THEN [acc EXCEPT !.threw = TRUE, !.error = r.error]
  ELSE IF r.target.nodeIdx > 0
  THEN [acc EXCEPT
          !.targets = Append(@, r.target),
          !.valueNodeMask = SetMask(@, r.target.nodeIdx),
          !.pathNodeMask = SetMasks(@, r.target.seqPath, 1)]
  ELSE [acc EXCEPT !.targets = Append(@, r.target)]

\* Lines 162-218: one query name after the other, until one throws.
RECURSIVE OldResolveLoop(_, _, _, _, _)
OldResolveLoop(p, subset, qs, targetIdx, acc) ==
  IF acc.threw THEN acc
  ELSE IF targetIdx > Len(qs.names) THEN acc
  ELSE OldResolveLoop(p, subset, qs, targetIdx + 1,
         AddTarget(acc,
           OldSubQueryLoop(p, subset, qs.names[targetIdx],
                           qs.queries[qs.names[targetIdx]], 1,
                           [threw |-> FALSE,
                            target |-> EmptyTarget(qs.names[targetIdx], "")])))

\* Lines 155-218: the targets and masks of the subset, or the exception that
\* ended the loops.
OldResolve(p, subset, qs) ==
  OldResolveLoop(p, subset, qs, 1,
    [threw |-> FALSE, error |-> NoError, targets |-> <<>>,
     valueNodeMask |-> NewMask(getIsc(p, getInode(p))),
     pathNodeMask |-> NewMask(getIsc(p, getInode(p)))])

\* old_findTargets, lines 144-222. An exception of findTarget leaves through
\* the caller: its targets and masks are gone, the caches are as before.
OldFindTargets ==
  /\ pc = "loaded"
  /\ IF getSubset \in DOMAIN targetCache
     THEN /\ targets' = targetCache[getSubset]
          /\ masks' = maskCache[getSubset]
          /\ fresh' = FALSE
          /\ pc' = "resolved"
          /\ UNCHANGED <<targetCache, maskCache, err>>
     ELSE \E r \in {OldResolve(Prov, getSubset, querySet)} :
            IF r.threw
            THEN /\ err' = r.error
                 /\ pc' = "failed"
                 /\ targets' = <<>>
                 /\ masks' = NoMasks
                 /\ fresh' = TRUE
                 /\ UNCHANGED <<targetCache, maskCache>>
            ELSE /\ targets' = r.targets
                 /\ masks' = [valueNodeMask |-> r.valueNodeMask,
                              pathNodeMask |-> r.pathNodeMask]
                 /\ fresh' = TRUE
                 /\ pc' = "resolved"
                 /\ targetCache' = (getSubset :> r.targets) @@ targetCache
                 /\ maskCache' =
                      (getSubset :> [valueNodeMask |-> r.valueNodeMask,
                                     pathNodeMask |-> r.pathNodeMask]) @@ maskCache
                 /\ UNCHANGED err
  /\ UNCHANGED <<querySet, dp, round, variants, frames, collectVars>>
  /\ UNCHANGED out

\* The queries old_findTargets is given: TEMP directly below the subset or
\* below OBS, with every index up to MaxIndex at the endpoint.
IndexStr(i) == IF i = 0 THEN "" ELSE "[" \o ToString(i) \o "]"

qIndexedTemp(i) ==
  Query(AnySubset, <<Comp("TEMP", i)>>, "*/TEMP" \o IndexStr(i))

qIndexedObsTemp(i) ==
  Query(AnySubset, <<Comp("OBS", 0), Comp("TEMP", i)>>,
        "*/OBS/TEMP" \o IndexStr(i))

qBPres == Query(NamedSubset("B"), <<Comp("PRES", 0)>>, "B/PRES")

IndexedQueries ==
  {qIndexedTemp(i) : i \in 0..MaxIndex} \cup {qIndexedObsTemp(i) : i \in 0..MaxIndex}

OldQuerySets ==
  { [names |-> <<"x", "y">>,
     queries |-> [n \in {"x", "y"} |-> IF n = "x" THEN <<qa>> ELSE <<qBPres, qb>>]] :
      qa \in IndexedQueries, qb \in IndexedQueries }

InitOld ==
  /\ querySet \in OldQuerySets
  /\ dp = [subset |-> "", shape |-> 1, inv |-> <<>>, val |-> <<>>]
  /\ round = 0
  /\ variants = FALSE
  /\ targetCache = <<>>
  /\ maskCache = <<>>
  /\ frames = <<>>
  /\ pc = "idle"
  /\ targets = <<>>
  /\ masks = NoMasks
  /\ fresh = FALSE
  /\ dataCursor = 0
  /\ currentPath = <<>>
  /\ currentPathReturns = <<>>
  /\ returnNodeIdx = -1
  /\ lastNonZeroReturnIdx = -1
  /\ dataTable = NoTable
  /\ err = NoError
  /\ out = NoResult

NextOld ==
  \/ NextSubset
  \/ OldFindTargets
  \/ ReleaseTargets

SpecOld == InitOld /\ [][NextOld]_vars

\* ------------------------------------------------- endpoints and indices

\* The names on the way from the subset to table node n.
PathNames(p, n) ==
  LET nodes == getPathNodes(p, n)
  IN  [k \in 1..(Len(nodes) - 1) |-> TableName(p, nodes[k + 1])]

\* The endpoints a query path matches in a table: the leaves whose names on
\* the way from the subset are the path's names.
MatchedEndpoints(p, path) ==
  {n \in TableNodes(p) :
     /\ getTyp(p, n) \in LeafTyps
     /\ PathNames(p, n) = [k \in 1..Len(path) |-> path[k].name]}

Applies(q) == q.subset.isAnySubset \/ q.subset.name = getSubset

IndexOf(q) == Last(q.path).index

NumEndpoints(q) == Cardinality(MatchedEndpoints(Prov, q.path))

\* The sub-queries of the i-th name.
SubQueriesOf(i) ==
  {querySet.queries[querySet.names[i]][j] :
     j \in 1..Len(querySet.queries[querySet.names[i]])}

AllSubQueries == UNION {SubQueriesOf(i) : i \in 1..Len(querySet.names)}

\* The sub-queries of the i-th name that were tried: those up to the one the
\* i-th target carries.
TriedSubQueriesOf(i) ==
  LET qs == querySet.queries[querySet.names[i]]
  IN  {qs[j] : j \in {k \in 1..Len(qs) :
                        \E l \in k..Len(qs) : qs[l].queryStr = targets[i].queryStr}}

\* C7 as stated: a tried query that matches more than one endpoint and gives
\* no index fails with the error naming its query string, without a target
\* and without a cache entry; and the error is raised only for a query that
\* gives no index.
C7_AmbiguousOnlyWithoutIndex ==
  /\ (pc = "resolved" /\ fresh) =>
       \A i \in 1..Len(targets) : \A q \in TriedSubQueriesOf(i) :
         ~(Applies(q) /\ NumEndpoints(q) > 1 /\ IndexOf(q) = 0)
  /\ pc = "failed" =>
       /\ err.kind = "BadParameter"
       /\ targets = <<>>
       /\ getSubset \notin DOMAIN targetCache
       /\ getSubset \notin DOMAIN maskCache
       /\ \E q \in AllSubQueries :
            /\ q.queryStr = err.what
            /\ Applies(q)
            /\ NumEndpoints(q) > 1
            /\ IndexOf(q) = 0

\* C8: a target resolved from a query with index i > 0 at the endpoint, the
\* path matching m endpoints: if i <= m the target's node is the i-th matched
\* endpoint in increasing node order; if i > m the matched endpoints are kept
\* as they are, which shows as the outcome of the same path without an index:
\* the only endpoint when m = 1, no node when m = 0, and the error of more
\* than one remaining endpoint when m > 1 (never when i <= m).
C8_IndexNarrows ==
  /\ (pc = "resolved" /\ fresh) =>
       \A i \in 1..Len(targets) : \A q \in SubQueriesOf(i) :
         (q.queryStr = targets[i].queryStr /\ Applies(q) /\ IndexOf(q) > 0) =>
           LET E == MatchedEndpoints(Prov, q.path)
               m == Cardinality(E)
           IN  /\ IndexOf(q) <= m => targets[i].nodeIdx = NthOf(E, IndexOf(q))
               /\ IndexOf(q) > m =>
                    /\ m <= 1
                    /\ m = 0 => targets[i].nodeIdx = 0
                    /\ m = 1 => targets[i].nodeIdx \in E
  /\ pc = "failed" =>
       \A q \in AllSubQueries :
         (q.queryStr = err.what /\ IndexOf(q) > 0) =>
           /\ NumEndpoints(q) > 1
           /\ IndexOf(q) > NumEndpoints(q)
  /\ pc \in {"resolved", "failed"} /\ fresh =>
       LET q == querySet.queries[querySet.names[1]][1]
       IN  (Applies(q) /\ IndexOf(q) > NumEndpoints(q) /\ NumEndpoints(q) > 1) =>
             pc = "failed" /\ err.what = q.queryStr

\* C8 witness: one target comes from index 2 on a path with two endpoints and
\* is the second of them; another comes from an index beyond the only
\* endpoint of its path and is that endpoint.
C8_Witness ==
  /\ pc = "resolved"
  /\ fresh
  /\ \E i \in 1..Len(targets) : \E q \in SubQueriesOf(i) :
       /\ q.queryStr = targets[i].queryStr
       /\ IndexOf(q) = 2
       /\ NumEndpoints(q) = 2
       /\ targets[i].nodeIdx = NthOf(MatchedEndpoints(Prov, q.path), 2)
       /\ targets[i].nodeIdx # NthOf(MatchedEndpoints(Prov, q.path), 1)
  /\ \E i \in 1..Len(targets) : \E q \in SubQueriesOf(i) :
       /\ q.queryStr = targets[i].queryStr
       /\ IndexOf(q) > NumEndpoints(q)
       /\ NumEndpoints(q) = 1
       /\ targets[i].nodeIdx \in MatchedEndpoints(Prov, q.path)

\* ------------------------------------------------------- nesting of counts

RECURSIVE SumSeq(_)
SumSeq(s) == IF s = <<>> THEN 0 ELSE s[1] + SumSeq(Tail(s))

\* The counts of one field nest: one more level than seqPath has entries,
\* the outermost level is <<1>>, each level has one entry per occurrence
\* counted at the level above, and the innermost level sums to the number
\* of values.
CountsNest(field) ==
  /\ Len(field.seqCounts) = Len(field.target.seqPath) + 1
  /\ field.seqCounts[1] = <<1>>
  /\ \A k \in 1..(Len(field.seqCounts) - 1) :
       Len(field.seqCounts[k + 1]) = SumSeq(field.seqCounts[k])
  /\ Len(field.data) = SumSeq(field.seqCounts[Len(field.seqCounts)])

\* C11: in every frame, the seqCounts of every resolved target's field has
\* |seqPath| + 1 levels, starts with <<1>>, has at each level k+1 one entry
\* per occurrence counted at level k, and its innermost level sums to the
\* number of values collected for the target.
C11_CountsNest ==
  FrameDone =>
    \A f \in 1..Len(frames) :
      \A i \in 1..Len(frames[f].fields) :
        frames[f].fields[i].target.nodeIdx # 0 =>
          CountsNest(frames[f].fields[i])

\* ------------------------------------------- fixed replication is counted

\* The cursors of the current subset's stream that are at node n.
CursorsOf(n) == {c \in 1..getNVal : getInv(c) = n}

\* The scan of collectData is over and the fields are not yet built.
ScanDone == pc = "final"

\* The path-masked fixed replication nodes the stream opens exactly once.
FixedRepsOpenedOnce ==
  {r \in 1..(getIsc(Prov, getInode(Prov)) - 1) :
     /\ getTyp(Prov, r) = "FixedRep"
     /\ masks.pathNodeMask[r + 1]
     /\ Cardinality(CursorsOf(r)) = 1}

\* The targets whose leaf is a direct child of sequence node s and occurs
\* once in each occurrence of s.
LeafTargetsOf(s) ==
  {i \in 1..Len(targets) :
     /\ targets[i].nodeIdx # 0
     /\ getJmpb(Prov, targets[i].nodeIdx) = s
     /\ Cardinality(CursorsOf(targets[i].nodeIdx)) = Cardinality(CursorsOf(s))}

\* C12: when a path-masked FixedRep node r is opened once in a subset and is
\* followed by k occurrences of its child sequence r+1, each with one
\* occurrence of a target leaf, the counts of node r+1 are the single entry
\* k and the target has k values.
C12_FixedRepCounted ==
  ScanDone =>
    \A r \in FixedRepsOpenedOnce :
      LET k == Cardinality(CursorsOf(r + 1))
      IN  /\ dataTable[r + 1].counts = <<k>>
          /\ \A i \in LeafTargetsOf(r + 1) :
               Len(dataTable[targets[i].nodeIdx].values) = k

\* A fixed replication of at least two occurrences has been counted and its
\* leaf collected.
C12_Witness ==
  /\ ScanDone
  /\ \E r \in FixedRepsOpenedOnce :
       /\ Cardinality(CursorsOf(r + 1)) >= 2
       /\ dataTable[r + 1].counts = <<Cardinality(CursorsOf(r + 1))>>
       /\ \E i \in LeafTargetsOf(r + 1) :
            Len(dataTable[targets[i].nodeIdx].values) = Cardinality(CursorsOf(r + 1))

\* ------------------------------------------------------ get and its errors

\* A get call has ended.
GetDone == out # NoResult

\* C13: a get call made before any frame was collected fails with BadValue
\* "No data was found." and returns no data object, whatever the field name,
\* the group-by field and the override type.
C13_EmptyResultSet ==
  (GetDone /\ frames = <<>>) =>
    /\ out.threw
    /\ out.error = [kind |-> "BadValue", what |-> "No data was found."]
    /\ out.object = NoObject

\* A get for a field of the query set, with a group-by field and an override
\* type, has failed on a result set without frames.
C13_Witness ==
  /\ GetDone
  /\ frames = <<>>
  /\ out.fieldName = querySet.names[1]
  /\ out.groupByFieldName # ""
  /\ out.overrideType = "float"
  /\ out.threw
  /\ out.error.what = "No data was found."

\* The targets of the first frame that carry the name of the get call.
NamedInFirstFrame ==
  {i \in 1..Len(frames[1].fields) : frames[1].fields[i].target.name = out.fieldName}

\* C14: a get call on a result set with frames whose field name is the name
\* of no target of the first frame fails with the out_of_range of
\* targets->at and returns no data object; with a name that matches, the
\* call does not fail that way and the target it works on is the first one
\* of the first frame with that name.
C14_FieldNotFound ==
  (GetDone /\ frames # <<>>) =>
    IF NamedInFirstFrame = {}
    THEN /\ out.threw
         /\ out.error.kind = "out_of_range"
         /\ out.object = NoObject
    ELSE /\ out.error.kind # "out_of_range"
         /\ ~out.raw.threw =>
              /\ out.raw.targetIdx \in NamedInFirstFrame
              /\ \A i \in NamedInFirstFrame : out.raw.targetIdx <= i

\* A get for a name of no target has failed on a result set with frames.
C14_Witness ==
  /\ GetDone
  /\ frames # <<>>
  /\ NamedInFirstFrame = {}
  /\ out.threw
  /\ out.error.kind = "out_of_range"

\* The target of the first frame with the given name; the get call's own
\* target and its group-by target.
FirstFrameTarget(name) ==
  frames[1].fields[CHOOSE i \in 1..Len(frames[1].fields) :
                     frames[1].fields[i].target.name = name].target

HasFirstFrameTarget(name) ==
  \E i \in 1..Len(frames[1].fields) : frames[1].fields[i].target.name = name

\* C15: a get call with a non-empty group-by field whose target's dim-path
\* components, from index 1 on, are not a common prefix of those of the
\* requested target fails with the BadValue of the common-path check.
C15_GroupByChecked ==
  ( /\ GetDone
    /\ frames # <<>>
    /\ out.groupByFieldName # ""
    /\ HasFirstFrameTarget(out.fieldName)
    /\ HasFirstFrameTarget(out.groupByFieldName)
    /\ PathsDiverge(FirstFrameTarget(out.groupByFieldName),
                    FirstFrameTarget(out.fieldName)) ) =>
    /\ out.threw
    /\ out.error = [kind |-> "BadValue", what |-> "do not share a common path"]

\* The override types objectByType knows.
KnownOverrides == {"int", "int32", "int64", "float", "double", "string"}

\* The get call reached makeDataObject with an override type.
OverrideTried ==
  /\ GetDone
  /\ ~out.raw.threw
  /\ out.error.kind # "crash"
  /\ out.overrideType # ""

\* The override type and the merged type info disagree on string-ness.
StringnessDiffers == (out.overrideType = "string") # isString(out.raw.info)

ConversionError ==
  [kind |-> "BadParameter",
   what |-> "Conversions between numbers and strings are not currently supported."]

\* C16: a get call that reaches makeDataObject with a known override type
\* fails with the BadParameter of the number/string conversion exactly when
\* the override and the merged type info disagree on string-ness, and
\* otherwise returns an object of the override's type; with an unknown
\* override type it fails too; a failed call returns no data object.
C16_OverrideStringness ==
  OverrideTried =>
    /\ out.overrideType \in KnownOverrides =>
         /\ (out.threw /\ out.error = ConversionError) <=> StringnessDiffers
         /\ ~StringnessDiffers => ~out.threw
    /\ out.overrideType \notin KnownOverrides => out.threw
    /\ out.threw => out.object = NoObject
    /\ ~out.threw => out.object # NoObject

\* A numeric override on a field of characters has been rejected.
C16_Witness ==
  /\ OverrideTried
  /\ out.overrideType = "int"
  /\ isString(out.raw.info)
  /\ out.threw
  /\ out.error = ConversionError
  /\ out.object = NoObject

\* The field of frame f that the get call's name stands for.
FieldOf(f) ==
  frames[f].fields[CHOOSE i \in 1..Len(frames[f].fields) :
                     frames[f].fields[i].target.name = out.fieldName]

\* The field has no match in frame f: its target is unresolved, or resolved
\* with no value and no occurrence counted below the subset.
NoMatchIn(f) ==
  \/ FieldOf(f).target.nodeIdx = 0
  \/ /\ FieldOf(f).data = <<>>
     /\ \A k \in 2..Len(FieldOf(f).seqCounts) :
          \A i \in 1..Len(FieldOf(f).seqCounts[k]) : FieldOf(f).seqCounts[k][i] = 0

\* The get call is for a field of the query set that has no match in any of
\* the frames, and no override type was given.
GetOfAbsentField ==
  /\ GetDone
  /\ frames # <<>>
  /\ HasFirstFrameTarget(out.fieldName)
  /\ out.overrideType = ""
  /\ \A f \in 1..Len(frames) : NoMatchIn(f)

\* C17: a get call for a field with zero matches in every frame succeeds
\* and returns dims of the number of frames followed by ones, and data that
\* is MissingValue in every element, one per frame at least.
C17_AbsentFieldIsMissing ==
  GetOfAbsentField =>
    /\ ~out.threw
    /\ out.object.dims # <<>>
    /\ out.object.dims[1] = Len(frames)
    /\ \A k \in 2..Len(out.object.dims) : out.object.dims[k] = 1
    /\ Len(out.object.data) = Len(frames)
    /\ \A i \in 1..Len(out.object.data) : out.object.data[i] = MissingValue

\* The get call is for a field of the query set whose target is resolved in
\* every frame, without override type, and did not end the process.
GetOfResolvedField ==
  /\ GetDone
  /\ frames # <<>>
  /\ HasFirstFrameTarget(out.fieldName)
  /\ out.overrideType = ""
  /\ out.error.kind # "crash"
  /\ \A f \in 1..Len(frames) : FieldOf(f).target.nodeIdx # 0

\* Every counts vector of the field is uniform, and equal in all frames.
UniformCounts ==
  \A f \in 1..Len(frames) :
    /\ Len(FieldOf(f).seqCounts) = Len(FieldOf(1).seqCounts)
    /\ \A k \in 1..Len(FieldOf(f).seqCounts) :
         /\ FieldOf(f).seqCounts[k] # <<>>
         /\ \A i \in 1..Len(FieldOf(f).seqCounts[k]) :
              FieldOf(f).seqCounts[k][i] = FieldOf(1).seqCounts[k][1]

\* The largest count of the field at level k (from 1) over all frames.
MaxCountAt(k) ==
  max(Flatten([f \in 1..Len(frames) |-> FieldOf(f).seqCounts[k]]))

\* The fragments of the field in frame order, one after the other.
Fragments == Flatten([f \in 1..Len(frames) |-> FieldOf(f).data])

\* C18: a get call for a field whose counts are uniform and equal in all
\* frames returns, after the first dimension, the largest occurrence counts
\* along the target's sequence path (at the exported dimensions), and data
\* that is the frames' fragments one after the other, without padding.
C18_DenseCopy ==
  (GetOfResolvedField /\ UniformCounts) =>
    /\ ~out.threw
    /\ Len(out.object.dims) = Len(FieldOf(1).target.exportDimIdxs)
    /\ \A j \in 2..Len(out.object.dims) :
         out.object.dims[j] = MaxCountAt(FieldOf(1).target.exportDimIdxs[j] + 1)
    /\ out.object.data = Fragments

\* Some counts vector of the field is not uniform or differs between frames.
JaggedCounts ==
  /\ \A f \in 1..Len(frames) :
       /\ Len(FieldOf(f).seqCounts) = Len(FieldOf(1).seqCounts)
       /\ \A k \in 1..Len(FieldOf(f).seqCounts) : FieldOf(f).seqCounts[k] # <<>>
  /\ ~UniformCounts

\* The number of replication levels of the field.
Levels == Len(FieldOf(1).seqCounts) - 1

\* The length of a row: the product of the largest counts of the levels.
RowLengthOf ==
  IF Levels = 0 THEN 1
  ELSE IF Levels = 1 THEN MaxCountAt(2)
  ELSE MaxCountAt(2) * MaxCountAt(3)

\* The position in frame f's fragment of occurrence (i, j), counted from 0,
\* in stream order; for one level j is 0.
FragmentPos(f, i, j) ==
  IF Levels = 1 THEN i
  ELSE SumSeq(SubSeq(FieldOf(f).seqCounts[3], 1, i)) + j

\* The occurrence (i, j) exists in frame f.
Occurs(f, i, j) ==
  /\ i < FieldOf(f).seqCounts[2][1]
  /\ IF Levels = 1 THEN j = 0
     ELSE i < Len(FieldOf(f).seqCounts[3]) /\ j < FieldOf(f).seqCounts[3][i + 1]

\* The array the frames' fragments make when every occurrence (i, j) of
\* frame f is at f * rowLength + i * dims[2] + j and the rest is missing.
PaddedRows ==
  LET inner == IF Levels = 1 THEN 1 ELSE MaxCountAt(3)
  IN  [p \in 1..(Len(frames) * RowLengthOf) |->
         LET f == ((p - 1) \div RowLengthOf) + 1
             i == ((p - 1) % RowLengthOf) \div inner
             j == ((p - 1) % RowLengthOf) % inner
         IN  IF Occurs(f, i, j) /\ FragmentPos(f, i, j) < Len(FieldOf(f).data)
             THEN FieldOf(f).data[FragmentPos(f, i, j) + 1]
             ELSE MissingValue]

\* C19: a get call for a field with one or two replication levels whose
\* counts are jagged returns the value of occurrence (i, j) of frame f at
\* position f * rowLength + i * dims[2] + j, in stream order, and
\* MissingValue everywhere else.
C19_JaggedPlacement ==
  (GetOfResolvedField /\ Levels \in {1, 2} /\ JaggedCounts /\ RowLengthOf > 0) =>
    /\ ~out.threw
    /\ out.object.data = PaddedRows

\* ----------------------------------------------- one frame per accumulate

\* accumulate() is between its call and the first statement of collectData.
BeforeNextDataFrame == pc \in {"loaded", "resolved"}

\* The number of frames is the number of accumulate() calls made, less the
\* one that has not reached nextDataFrame() yet.
FramesCounted ==
  Len(frames) = IF BeforeNextDataFrame THEN round - 1 ELSE round

\* The values of frame f come from the f-th subset: a value of the stream of
\* the f-th subset is 100 * f plus its cursor.
FromItsSubset(f) ==
  \A i \in 1..Len(frames[f].fields) :
    \A k \in 1..Len(frames[f].fields[i].data) :
      LET v == frames[f].fields[i].data[k]
      IN  v # MissingValue =>
            (frames[f].fields[i].target.nodeIdx # 0 /\ v \div 100 = f)

\* A step keeps every frame that was complete before it, in its place, and
\* adds at most one frame at the end.
FramesKept ==
  /\ Len(frames') \in {Len(frames), Len(frames) + 1}
  /\ \A i \in 1..Len(frames) :
       (i < Len(frames) \/ pc = "idle" \/ BeforeNextDataFrame) =>
         frames'[i] = frames[i]

\* C20: every accumulate() call appends exactly one frame, so after k calls
\* the result set holds k frames; frame i holds the data of the i-th subset;
\* and no later step changes or moves a frame of an earlier call.
C20_OneFramePerAccumulate ==
  /\ [](FramesCounted /\ \A f \in 1..Len(frames) : FromItsSubset(f))
  /\ [][FramesKept]_vars

\* Two accumulate() calls have returned and each frame holds values of its
\* own subset.
C20_Witness ==
  /\ pc = "idle"
  /\ round = 2
  /\ Len(frames) = 2
  /\ \A f \in 1..2 :
       \E i \in 1..Len(frames[f].fields) :
         /\ frames[f].fields[i].target.nodeIdx # 0
         /\ frames[f].fields[i].data # <<>>
         /\ frames[f].fields[i].data[1] \div 100 = f

\* ------------------------------------------------------- the returned dims

\* The get call returned an object.
GetReturned == GetDone /\ ~out.threw

\* The target getRawValues holds when it projects the dims (line 258): the
\* one of the last frame, at the index found in the first frame.
ProjectionTarget == Last(frames).fields[out.raw.targetIdx].target

\* exportDimIdxs names every dimension of dims, in order.
SelectsEveryDimension(exportDimIdxs, dims) ==
  exportDimIdxs = [i \in 1..Len(dims) |-> i - 1]

\* C21: the dims a get call returns are the per-frame dims with the first
\* one replaced by the number of frames, projected onto the target's
\* exportDimIdxs: as many dimensions as exportDimIdxs has entries, the first
\* the number of frames, and their product the length of the data whenever
\* exportDimIdxs selects every dimension.
C21_DimsProjected ==
  GetReturned =>
    /\ Len(out.object.dims) = Len(ProjectionTarget.exportDimIdxs)
    /\ out.object.dims[1] = Len(frames)
    /\ \A j \in 2..Len(out.object.dims) :
         out.object.dims[j] = out.raw.dimsList[ProjectionTarget.exportDimIdxs[j] + 1]
    /\ SelectsEveryDimension(ProjectionTarget.exportDimIdxs, out.raw.dimsList) =>
         product(out.object.dims) = Len(out.object.data)

\* A get call on two frames returned two dimensions, both exported, with
\* more than one element per frame.
C21_Witness ==
  /\ GetReturned
  /\ Len(frames) = 2
  /\ ProjectionTarget.exportDimIdxs = <<0, 1>>
  /\ out.object.dims = <<2, 2>>
  /\ Len(out.object.data) = 4

\* ------------------------------------------------------------ the exit step

\* The nodes the step pops from currentPath, innermost first in the stack.
Popped == SubSeq(currentPath, Len(currentPath') + 1, Len(currentPath))

\* How many of the popped nodes are delayed replications whose child
\* sequence is node n.
DecrementsAt(n) ==
  Cardinality({i \in 1..Len(Popped) :
                 /\ Popped[i] + 1 = n
                 /\ getTyp(Prov, Popped[i]) \in {"DelayedRep", "DelayedRepStacked"}})

\* One when the node at the cursor is n and counts an occurrence.
IncrementAt(n) ==
  IF n = getInv(dataCursor) /\ CountsOccurrence(Prov, n) THEN 1 ELSE 0

\* A step of the cursor loop up to its exit step pops the same number of
\* entries from both stacks and changes no count but the last of a vector:
\* one up for the occurrence counted at the cursor, one down for every popped
\* delayed replication, nothing for a popped FixedRep or DelayedBinary.
ExitStepCounts ==
  pc = "scan" =>
    /\ Len(currentPath') <= Len(currentPath)
    /\ currentPath' = SubSeq(currentPath, 1, Len(currentPath'))
    /\ currentPathReturns' = SubSeq(currentPathReturns, 1, Len(currentPath'))
    /\ \A n \in DOMAIN dataTable :
         /\ Len(dataTable'[n].counts) = Len(dataTable[n].counts)
         /\ \A i \in 1..Len(dataTable[n].counts) :
              dataTable'[n].counts[i] =
                IF i < Len(dataTable[n].counts) THEN dataTable[n].counts[i]
                ELSE dataTable[n].counts[i] + IncrementAt(n) - DecrementsAt(n)
         /\ dataTable[n].counts = <<>> => IncrementAt(n) + DecrementsAt(n) = 0

\* The path-masked delayed replication nodes of the subset.
DelayedRepsOnPath ==
  {r \in 1..(getIsc(Prov, getInode(Prov)) - 1) :
     /\ getTyp(Prov, r) \in {"DelayedRep", "DelayedRepStacked"}
     /\ masks.pathNodeMask[r + 1]}

\* The counts the stream carries at the occurrences of replication node r,
\* in stream order.
StreamCountsOf(r) ==
  LET cs == SetToSortedSeq(CursorsOf(r))
  IN  [i \in 1..Len(cs) |-> getVal(cs[i])]

\* At the end of the scan the counts of the child sequence of every
\* path-masked delayed replication are the counts of its occurrences.
DelayedCountsRecorded ==
  ScanDone =>
    \A r \in DelayedRepsOnPath : dataTable[r + 1].counts = StreamCountsOf(r)

\* C22: the exit step takes one off the last count at node+1 for every
\* popped DelayedRep or DelayedRepStacked and nothing for a popped FixedRep
\* or DelayedBinary, pops both stacks alike, and so the count recorded for
\* a delayed replication occurrence with k child occurrences is k.
C22_ExitStepDecrements ==
  /\ [][ExitStepCounts]_vars
  /\ []DelayedCountsRecorded

\* ---------------------------------------------------------- the jagged flag

\* The field of frame f at the index the get call found in the first frame.
FieldAt(f) == frames[f].fields[out.raw.targetIdx]

\* The get call went through the loop over the frames for a field that is
\* resolved in every frame.
JaggedDecided ==
  /\ GetDone
  /\ ~out.raw.threw
  /\ \A f \in 1..Len(frames) : FieldAt(f).target.nodeIdx # 0

\* The dimensions of the field (from 0): the path components but the last.
DimensionsOf == 0..(Len(FieldAt(1).target.path) - 2)

\* The largest count of frame f in dimension k, 0 without any count.
FrameMax(f, k) ==
  IF CountsAt(FieldAt(f), k) = <<>> THEN 0 ELSE max(CountsAt(FieldAt(f), k))

\* The running maximum of dimension k that the frames before f established.
RunningMax(f, k) == max([g \in 1..(f - 1) |-> FrameMax(g, k)])

\* Some counts vector of the field is not uniform.
SomeCountsNonUniform ==
  \E f \in 1..Len(frames), k \in DimensionsOf : ~allEqual(CountsAt(FieldAt(f), k))

\* Some frame's maximum differs from the running maximum before it.
SomeMaxDiffers ==
  \E f \in 2..Len(frames), k \in DimensionsOf : FrameMax(f, k) # RunningMax(f, k)

\* C23: the jagged flag of a get call is true if and only if some counts
\* vector of the target in some frame is not uniform, or some frame's
\* maximum in a dimension differs from the running maximum of the frames
\* before it, a running maximum of 0 included.
C23_JaggedIff ==
  JaggedDecided => (out.raw.jagged <=> (SomeCountsNonUniform \/ SomeMaxDiffers))

\* ------------------------------------------------------ the merged type info

\* The get call went through the loop over the frames.
InfoMerged == GetDone /\ ~out.raw.threw

\* The type info of the field's target in frame f.
InfoOf(f) == FieldAt(f).target.typeInfo

\* The frames whose unit is not empty.
FramesWithUnit == {f \in 1..Len(frames) : InfoOf(f).unit # ""}

\* C24: the type info a get call merges over the frames has the smallest
\* reference and the largest bit width of the frames, the scale of largest
\* magnitude among the frames' scales, and the first non-empty unit in
\* frame order.
C24_TypeInfoMerged ==
  InfoMerged =>
    /\ \E f \in 1..Len(frames) : out.raw.info.reference = InfoOf(f).reference
    /\ \A f \in 1..Len(frames) : out.raw.info.reference <= InfoOf(f).reference
    /\ \E f \in 1..Len(frames) : out.raw.info.bits = InfoOf(f).bits
    /\ \A f \in 1..Len(frames) : out.raw.info.bits >= InfoOf(f).bits
    /\ \E f \in 1..Len(frames) : out.raw.info.scale = InfoOf(f).scale
    /\ \A f \in 1..Len(frames) :
         StdAbs(out.raw.info.scale) >= StdAbs(InfoOf(f).scale)
    /\ out.raw.info.unit =
         IF FramesWithUnit = {} THEN ""
         ELSE InfoOf(CHOOSE f \in FramesWithUnit :
                       \A g \in FramesWithUnit : f <= g).unit

\* --------------------------------------------------------- the mask indices

\* n is an index of both masks of the current subset.
MaskIndex(n) ==
  MaskInRange(masks.valueNodeMask, n) /\ MaskInRange(masks.pathNodeMask, n)

\* The indices findTargets writes: the node of every resolved target and the
\* entries of its sequence path.
WrittenMaskIndices == ResolvedNodes \cup ResolvedSeqNodes

\* The indices one pass of the cursor loop reads: the node at the cursor,
\* and the node it jumps back to when that is not 0.
ReadMaskIndices ==
  {getInv(dataCursor)} \cup
    (IF getJmpb(Prov, getInv(dataCursor)) > 0
     THEN {getJmpb(Prov, getInv(dataCursor))} ELSE {})

\* C25: the masks have numNodes = isc(inode) flags, and every index that
\* findTargets writes and collectData reads is below numNodes, the
\* subset's last node isc(inode) included.
C25_MaskIndexInRange ==
  /\ JustResolved =>
       /\ Len(masks.valueNodeMask) = getIsc(Prov, getInode(Prov))
       /\ Len(masks.pathNodeMask) = getIsc(Prov, getInode(Prov))
       /\ \A n \in WrittenMaskIndices : MaskIndex(n)
  /\ pc = "scan" => \A n \in ReadMaskIndices : MaskIndex(n)

\* -------------------------------------------------- counts.back() is there

\* Node n is a node of the data table and its counts vector has an entry.
HasCount(n) == n \in DOMAIN dataTable /\ dataTable[n].counts # <<>>

\* A step of the cursor loop that increments the last count of the node at
\* the cursor, or decrements the last count at the child sequence of a
\* popped delayed replication, finds that vector non-empty, and a step that
\* opens the replication at the cursor appends to a vector of the table.
CountsBackDefined ==
  /\ pc = "scan" =>
       /\ CountsOccurrence(Prov, getInv(dataCursor)) => HasCount(getInv(dataCursor))
       /\ \A i \in 1..Len(Popped) :
            getTyp(Prov, Popped[i]) \in {"DelayedRep", "DelayedRepStacked"} =>
              HasCount(Popped[i] + 1)
  /\ pc = "open" =>
       /\ getInv(dataCursor) + 1 \in DOMAIN dataTable
       /\ dataTable'[getInv(dataCursor) + 1].counts =
            Append(dataTable[getInv(dataCursor) + 1].counts, 0)

\* C26: whenever collectData increments or decrements the last element of a
\* counts vector, an opening step of the same pass has appended an entry to
\* it, and the node indexed lies within inode..isc(inode).
C26_CountsBackDefined ==
  /\ [][CountsBackDefined]_vars
  /\ [](dataTable # NoTable =>
          DOMAIN dataTable = getInode(Prov)..getIsc(Prov, getInode(Prov)))

\* The cursor is at a node that ends a delayed replication whose child
\* sequence has been incremented for two occurrences and the closing node:
\* the decrement acts on the entry the opening step appended.
C26_Witness ==
  /\ pc = "scan"
  /\ ExitsSequence(getInv(dataCursor))
  /\ lastNonZeroReturnIdx < Len(currentPath)
  /\ getTyp(Prov, Last(currentPath)) \in {"DelayedRep", "DelayedRepStacked"}
  /\ HasCount(Last(currentPath) + 1)
  /\ Last(dataTable[Last(currentPath) + 1].counts) = 3

\* --------------------------------------------------------------- the stacks

\* How many entries the exit loop of lines 486-497 pops when it runs.
ExitPops ==
  IF lastNonZeroReturnIdx > Len(currentPathReturns) - 1 THEN 0
  ELSE Len(currentPathReturns) - lastNonZeroReturnIdx

\* The two stacks have the same length.
StacksAlike == Len(currentPath) = Len(currentPathReturns)

\* An exit step pops no more entries than the stacks hold.
ExitPopsWithinStack ==
  (pc = "scan" /\ ExitsSequence(getInv(dataCursor))) =>
    ExitPops <= Len(currentPathReturns)

\* After an exit step, lines 499-500 read currentPathReturns at its last
\* index, which needs an entry left on the stack.
ReturnReadWithinStack ==
  (pc = "scan" /\ ExitsSequence(getInv(dataCursor))) =>
    currentPathReturns' # <<>>

\* C27: in every state of collectData the two stacks have equal length, an
\* exit step pops no more than they hold, and the recomputation of
\* lastNonZeroReturnIdx and returnNodeIdx reads currentPathReturns at an
\* index within 0..size-1, never from an emptied stack.
C27_StacksInStep ==
  /\ [](StacksAlike /\ ExitPopsWithinStack)
  /\ [][ReturnReadWithinStack]_vars

\* ------------------------------------------------- pushed and popped once

\* No count of the data table is negative.
NoNegativeCount ==
  \A n \in DOMAIN dataTable :
    \A i \in 1..Len(dataTable[n].counts) : dataTable[n].counts[i] >= 0

\* C28: every replication occurrence pushed on currentPath during a pass is
\* popped exactly once before the fields are built: at the end of the
\* cursor loop both stacks are empty, the count of every opened delayed
\* replication occurrence has been decremented exactly once, so that it is
\* the number of its child occurrences, and no count is negative.
C28_PushedPoppedOnce ==
  /\ ScanDone =>
       /\ currentPath = <<>>
       /\ currentPathReturns = <<>>
       /\ \A r \in DelayedRepsOnPath : dataTable[r + 1].counts = StreamCountsOf(r)
  /\ NoNegativeCount

\* ------------------------------------------------- writes stay in their row

\* The get call went through the copy loop.
CopyDone == GetDone /\ ~out.raw.threw

\* The target the copy loop holds when it reads the fragment of frame f
\* (line 195): the one of the frame before, the last frame's for the first.
FragmentTarget(f) ==
  IF f = 1 THEN Last(frames).fields[out.raw.targetIdx].target
  ELSE frames[f - 1].fields[out.raw.targetIdx].target

\* The fragment the copy loop reads for frame f.
FragmentOf(f) == DataAt(frames[f], FragmentTarget(f).nodeIdx)

\* Where in its row the copy loop writes the elements of the fragment of
\* frame f.
RowIdxsOf(f) ==
  FragmentIdxs(out.raw.jagged, out.raw.dimsList, FieldAt(f), FragmentOf(f))

\* The length of a row of the output.
RowLength == ProductFrom(out.raw.dimsList, 1)

\* C29: every write of an element of a frame's fragment lands in the row of
\* that frame, index f*rowLength up to (f+1)*rowLength, and inside the
\* data, whether the copy is the jagged scatter or the dense one and
\* whatever the counts of the frames are.
C29_WritesInOwnRow ==
  CopyDone =>
    /\ Len(out.raw.data) = Len(frames) * RowLength
    /\ \A f \in 1..Len(frames) :
         \A i \in 1..Len(RowIdxsOf(f)) :
           /\ RowIdxsOf(f)[i] >= 0
           /\ RowIdxsOf(f)[i] < RowLength

\* ------------------------------------------------- one target per name

\* The names of a list of targets, in the list's order.
TargetNames(targs) == [i \in 1..Len(targs) |-> targs[i].name]

\* The names of the targets of the fields of frame f, in the fields' order.
FrameNames(f) ==
  [i \in 1..Len(frames[f].fields) |-> frames[f].fields[i].target.name]

\* C30: for every subset, the targets findTargets hands to collectData are
\* one per name of the query set, in the order of querySet.names(), resolved
\* or empty; so every frame of the result set has the same name at the same
\* index, and the index get finds in the first frame names the requested
\* field in every frame.
C30_OneTargetPerName ==
  /\ pc = "resolved" => TargetNames(targets) = querySet.names
  /\ \A f \in 1..Len(frames) :
       pc = "idle" \/ f < Len(frames) => FrameNames(f) = querySet.names
  /\ GetReturned =>
       \A f \in 1..Len(frames) :
         frames[f].fields[out.raw.targetIdx].target.name = out.fieldName

\* C30 witness: get returned a field that is not the query set's first name,
\* resolved in one frame and empty in another.
C30_Witness ==
  /\ GetReturned
  /\ out.raw.targetIdx > 1
  /\ \E f, g \in 1..Len(frames) :
       /\ frames[f].fields[out.raw.targetIdx].target.nodeIdx = 0
       /\ frames[g].fields[out.raw.targetIdx].target.nodeIdx # 0

====
